---- MODULE Spec2Model ----
(***************************************************************************)
(* Entity/context runtime of gpui2: the entity store with strong and weak  *)
(* handles, ModelContext (observe, subscribe, on_release, observe_release, *)
(* notify, emit, update_entity, read_global, update_global), the effect   *)
(* queue with its flush loop, the AsyncAppContext bridge                   *)
(* (Weak<Mutex<AppContext>>) with its window-scoped AsyncWindowContext,    *)
(* and the Text element of gpui3 (initialize, layout, paint).              *)
(***************************************************************************)
EXTENDS Naturals, Integers, Sequences, FiniteSets, TLC

\* ---------------------------------------------------------------- bounds
MaxEntities == 2
MaxHandles == 2
MaxEffects == 2
MaxSubscriptions == 2
MaxDepth == 2
MaxCount == 2
MaxTasks == 2
MaxWindows == 1
MaxGlobals == 2
MaxGlobalValue == 2
MaxGlobalDepth == 3
MaxFrameCallbacks == 2
MaxLines == 2
MaxWidth == 2
MaxLineHeight == 2
MaxMeasurements == 2

EntityIds == 1..MaxEntities
SubscriptionIds == 1..MaxSubscriptions
Tasks == 1..MaxTasks
WindowIds == 1..MaxWindows
GlobalTypes == 1..MaxGlobals

\* behaviour of a user callback / closure body
\*   "inc"  : the callback increments its own entity's counter (this.count += 1)
\*   "free" : an arbitrary closure (any sequence of context operations)
Behaviours == {"inc", "free"}

VARIABLES
    next_entity_id,     \* EntityMap: next id to allocate
    entities,           \* EntityMap: slot of every id: "none" | "some" | "taken"
    counters,           \* the increments of each entity's counter in this episode
    ref_counts,         \* EntityMap: strong count of every id
    handles,            \* strong handles held by user code, per id
    last_upgrade,       \* outcome of the latest WeakHandle::upgrade by user code
    pending_effects,    \* AppContext: the effect queue
    flushing_effects,   \* AppContext: TRUE while Draining
    observers,          \* AppContext.observers: registry entries in insertion order
    event_handlers,     \* AppContext.event_handlers
    release_handlers,   \* AppContext.release_handlers
    next_subscriber_id, \* SubscriberSet: next subscription id
    stack,              \* update_entity calls in progress, innermost last
    dispatch,           \* the effect being dispatched and the callbacks still to call
    panicked,           \* a fatal invariant violation was raised
    enqueued,           \* history: effects pushed, this episode
    dispatched,         \* history: effects popped by the flush loop, this episode
    fired,              \* history: registry callbacks invoked by the current dispatch
    dropped,            \* history: the entries whose Subscription token was dropped
    recording,          \* history: TRUE when enqueued and dispatched are recorded
    owner,              \* the application still holds its Arc<Mutex<AppContext>>
    strong_count,       \* strong count of the Arc<Mutex<AppContext>>
    mutex,              \* the task that holds the Mutex, 0 when it is free
    windows,            \* AppContext: the windows that exist
    tasks,              \* per task: its position in an AsyncAppContext operation
    callers,            \* per task: the context method that made its latest call
    next_frame_callbacks, \* per window: the callbacks to run at its next frame
    nested,             \* per task: the bridge call made from inside its closure
    globals,            \* AppContext: the global table, per type
    global_stack,       \* read_global / update_global calls in progress
    global_panicked,    \* an access to a global that is not in the table
    stage,              \* Text: the latest Element method the frame has called
    element_state,      \* Text: the Option<TextElementState> behind the Arc
    measure_callback,   \* Text: the closure layout gave to request_measured_layout
    measurements,       \* Text: the times that closure has run since layout
    last_layout,        \* Text: the outcome of the latest layout_text
    size,               \* Text: the Size the closure returned last
    painted,            \* Text: the y of every line the latest paint painted
    text_panic          \* Text: the panic raised, "none" if none

vars == <<next_entity_id, entities, counters, ref_counts, handles,
          last_upgrade, pending_effects, flushing_effects, observers,
          event_handlers, release_handlers, next_subscriber_id, stack, dispatch,
          panicked, enqueued, dispatched, fired, dropped, recording,
          owner, strong_count, mutex, windows, tasks, callers,
          next_frame_callbacks, nested,
          globals, global_stack, global_panicked,
          stage, element_state, measure_callback, measurements, last_layout,
          size, painted, text_panic>>

\* the state of a Text element
text_vars == <<stage, element_state, measure_callback, measurements,
               last_layout, size, painted, text_panic>>

\* the state of the global table
global_vars == <<globals, global_stack, global_panicked>>

\* the state behind the AsyncAppContext bridge
bridge_vars == <<owner, strong_count, mutex, windows, tasks, callers,
                 next_frame_callbacks, nested>>

\* the state of the synchronous runtime
app_vars == <<next_entity_id, entities, counters, ref_counts, handles,
              last_upgrade, pending_effects, flushing_effects, observers,
              event_handlers, release_handlers, next_subscriber_id, stack,
              dispatch, panicked, enqueued, dispatched, fired, dropped,
              recording>>

store_vars == <<next_entity_id, entities, counters, ref_counts, handles>>
registry_vars == <<observers, event_handlers, release_handlers, next_subscriber_id>>
history_vars == <<enqueued, dispatched, fired, dropped>>

\* ---------------------------------------------------------------- effects
Notify(emitter) == [type |-> "Notify", emitter |-> emitter]
Emit(emitter) == [type |-> "Emit", emitter |-> emitter]
Release(id) == [type |-> "Release", emitter |-> id]

NoDispatch == [effect |-> "None", emitter |-> 0, snapshot |-> <<>>, callbacks |-> <<>>]
NoUpgrade == [id |-> 0, some |-> FALSE, before |-> 0]

\* ---------------------------------------------------------------- helpers
RECURSIVE SelectKey(_, _)
SelectKey(set, key) ==
    IF set = <<>> THEN <<>>
    ELSE IF Head(set).key = key
         THEN <<Head(set)>> \o SelectKey(Tail(set), key)
         ELSE SelectKey(Tail(set), key)

RECURSIVE RemoveId(_, _)
RemoveId(set, id) ==
    IF set = <<>> THEN <<>>
    ELSE IF Head(set).id = id
         THEN RemoveId(Tail(set), id)
         ELSE <<Head(set)>> \o RemoveId(Tail(set), id)

RECURSIVE RemoveKey(_, _)
RemoveKey(set, key) ==
    IF set = <<>> THEN <<>>
    ELSE IF Head(set).key = key
         THEN RemoveKey(Tail(set), key)
         ELSE <<Head(set)>> \o RemoveKey(Tail(set), key)

Ids(set) == {set[i].id : i \in 1..Len(set)}

Top == stack[Len(stack)]
Pop(s) == SubSeq(s, 1, Len(s) - 1)

InUpdate(e) == \E i \in 1..Len(stack) : stack[i].entity = e

\* user code is running at top level (no update in progress, queue Idle)
Idle == stack = <<>> /\ ~flushing_effects /\ ~panicked

\* user code is running inside the closure of an update of `self`
InClosure(self) ==
    /\ ~panicked
    /\ stack # <<>>
    /\ Top.entity = self

\* user code is running somewhere (top level or inside a closure)
UserCode == ~panicked /\ (Idle \/ stack # <<>>)

\* ---------------------------------------------------------------- entity store
\* the part of the state a handle drop or an effect push changes
World == [entities |-> entities, ref_counts |-> ref_counts,
          pending_effects |-> pending_effects, enqueued |-> enqueued]

\* AppContext::push_effect: append at the tail of the queue
push_effect(w, effect) ==
    [w EXCEPT !.pending_effects = Append(@, effect),
              !.enqueued = IF recording
                           THEN Append(@, [effect |-> effect,
                                           draining |-> flushing_effects])
                           ELSE @]

\* Drop for Handle<T>: the strong count falls; the last drop removes the slot
\* and enqueues Release
drop_handle(w, id) ==
    IF w.ref_counts[id] = 1
    THEN push_effect([w EXCEPT !.ref_counts[id] = 0, !.entities[id] = "none"],
                     Release(id))
    ELSE [w EXCEPT !.ref_counts[id] = @ - 1]

RECURSIVE drop_handles(_, _)
drop_handles(w, ids) ==
    IF ids = <<>> THEN w ELSE drop_handles(drop_handle(w, Head(ids)), Tail(ids))

\* WeakHandle::upgrade: Some iff the id still has a slot in the store
upgrade(ents, id) == ents[id] # "none"

\* the world after upgrading the weak handles `ids` (those that are live)
RECURSIVE upgrade_all(_, _)
upgrade_all(w, ids) ==
    IF ids = <<>> THEN w
    ELSE upgrade_all(IF upgrade(w.entities, Head(ids))
                     THEN [w EXCEPT !.ref_counts[Head(ids)] = @ + 1]
                     ELSE w, Tail(ids))

RECURSIVE live_of(_, _)
live_of(ents, ids) ==
    IF ids = <<>> THEN <<>>
    ELSE (IF upgrade(ents, Head(ids)) THEN <<Head(ids)>> ELSE <<>>)
         \o live_of(ents, Tail(ids))

SetWorld(w) ==
    /\ entities' = w.entities
    /\ ref_counts' = w.ref_counts
    /\ pending_effects' = w.pending_effects
    /\ enqueued' = w.enqueued

\* a top-level mutation begins a new episode (history only)
BeginEpisode ==
    /\ enqueued' = [i \in DOMAIN pending_effects |->
                        [effect |-> pending_effects[i], draining |-> FALSE]]
    /\ dispatched' = <<>>
    /\ fired' = <<>>

\* ---------------------------------------------------------------- handles
\* Context::entity: allocate an id, build the value, insert it, return a handle
entity ==
    /\ UserCode
    /\ next_entity_id <= MaxEntities
    /\ LET id == next_entity_id IN
        /\ next_entity_id' = id + 1
        /\ entities' = [entities EXCEPT ![id] = "some"]
        /\ ref_counts' = [ref_counts EXCEPT ![id] = 1]
        /\ handles' = [handles EXCEPT ![id] = 1]
    /\ IF Idle
       THEN /\ flushing_effects' = TRUE
            /\ BeginEpisode
       ELSE /\ UNCHANGED flushing_effects
            /\ UNCHANGED <<enqueued, dispatched, fired>>
    /\ UNCHANGED <<counters, pending_effects, registry_vars, stack, dispatch,
                   panicked, dropped>>

\* Clone for Handle<T>
clone_handle(e) ==
    /\ UserCode
    /\ handles[e] >= 1
    /\ handles[e] < MaxHandles
    /\ handles' = [handles EXCEPT ![e] = @ + 1]
    /\ ref_counts' = [ref_counts EXCEPT ![e] = @ + 1]
    /\ UNCHANGED <<next_entity_id, entities, counters, pending_effects,
                   flushing_effects, registry_vars, stack, dispatch, panicked,
                   history_vars>>

\* user code drops one of its strong handles; a handle borrowed by an update in
\* progress cannot be dropped
drop_user_handle(e) ==
    /\ UserCode
    /\ handles[e] >= 1
    /\ InUpdate(e) => ref_counts[e] >= 2
    /\ handles' = [handles EXCEPT ![e] = @ - 1]
    /\ SetWorld(drop_handle(World, e))
    /\ UNCHANGED <<next_entity_id, counters, flushing_effects, registry_vars, stack,
                   dispatch, panicked, dispatched, fired, dropped>>

\* Handle::downgrade: a weak handle to the same id
downgrade(e) == e

\* ModelContext::handle: entities.weak_handle(self.entity_id)
handle(self) == self

\* WeakHandle::upgrade called by user code on a weak handle to `e`
upgrade_weak(e) ==
    /\ UserCode
    /\ e < next_entity_id
    /\ handles[e] < MaxHandles
    /\ IF upgrade(entities, e)
       THEN /\ handles' = [handles EXCEPT ![e] = @ + 1]
            /\ ref_counts' = [ref_counts EXCEPT ![e] = @ + 1]
            /\ last_upgrade' = [id |-> e, some |-> TRUE, before |-> ref_counts[e]]
       ELSE /\ UNCHANGED <<handles, ref_counts>>
            /\ last_upgrade' = [id |-> e, some |-> FALSE, before |-> ref_counts[e]]
    /\ UNCHANGED <<next_entity_id, entities, counters, pending_effects,
                   flushing_effects, registry_vars, stack, dispatch, panicked,
                   history_vars>>

\* ---------------------------------------------------------------- updates
Frame(e, temps) == [entity |-> e, temps |-> temps]

\* mutant: the slot is taken without looking at its marker
update_entity_unchecked(e) ==
    /\ entities' = [entities EXCEPT ![e] = "taken"]
    /\ stack' = Append(stack, Frame(e, <<>>))
    /\ UNCHANGED panicked

\* AppContext::update_entity, entry: take the value out of its slot and run the
\* closure; a slot that is already taken is a fatal invariant violation
update_entity(e) ==
    IF entities[e] = "taken"
    THEN /\ panicked' = TRUE
         /\ UNCHANGED <<entities, stack>>
    ELSE /\ entities' = [entities EXCEPT ![e] = "taken"]
         /\ stack' = Append(stack, Frame(e, <<>>))
         /\ UNCHANGED panicked

\* a top-level update_entity through a handle held by user code
BeginUpdate(e) ==
    /\ Idle
    /\ handles[e] >= 1
    /\ update_entity(e)
    /\ BeginEpisode
    /\ UNCHANGED <<next_entity_id, counters, ref_counts, handles, pending_effects,
                   flushing_effects, registry_vars, dispatch, dropped>>

\* ModelContext::update_entity: a nested update from inside a closure
NestedUpdate(self, e) ==
    /\ InClosure(self)
    /\ ref_counts[e] >= 1
    /\ entities[e] = "taken" \/ Len(stack) < MaxDepth
    /\ update_entity(e)
    /\ UNCHANGED <<next_entity_id, counters, ref_counts, handles, pending_effects,
                   flushing_effects, registry_vars, dispatch, history_vars>>

\* mutant: every update that returns starts a flush, nested ones too
Return_flush ==
    /\ ~panicked
    /\ stack # <<>>
    /\ LET w == drop_handles([World EXCEPT !.entities[Top.entity] = "some"],
                             Top.temps)
       IN SetWorld(w)
    /\ stack' = Pop(stack)
    /\ flushing_effects' = TRUE
    /\ UNCHANGED <<next_entity_id, counters, handles, registry_vars, dispatch,
                   panicked, dispatched, fired, dropped>>

\* the closure of the innermost update returns: the value is put back, the
\* handles the registry callback upgraded are dropped, and the outermost update
\* that is not already Draining starts the flush
Return ==
    /\ ~panicked
    /\ stack # <<>>
    /\ LET w == drop_handles([World EXCEPT !.entities[Top.entity] = "some"],
                             Top.temps)
       IN SetWorld(w)
    /\ stack' = Pop(stack)
    /\ flushing_effects' = (flushing_effects \/ Len(stack) = 1)
    /\ UNCHANGED <<next_entity_id, counters, handles, registry_vars, dispatch,
                   panicked, dispatched, fired, dropped>>

\* ---------------------------------------------------------------- ModelContext
\* mutant: notify puts its effect at the head of the queue
notify_front(self) ==
    /\ InClosure(self)
    /\ Len(enqueued) < MaxEffects
    /\ Len(pending_effects) < MaxEffects
    /\ SetWorld([push_effect(World, Notify(self)) EXCEPT
                    !.pending_effects = <<Notify(self)>> \o pending_effects])
    /\ UNCHANGED <<next_entity_id, counters, handles, flushing_effects,
                   registry_vars, stack, dispatch, panicked, dispatched, fired,
                   dropped>>

\* mutant: notify also calls the counting observers of its entity at once
notify_now(self) ==
    /\ InClosure(self)
    /\ Len(enqueued) < MaxEffects
    /\ Len(pending_effects) < MaxEffects
    /\ LET w == push_effect(World, Notify(self)) IN
        /\ entities' = w.entities
        /\ ref_counts' = w.ref_counts
        /\ pending_effects' = w.pending_effects
        /\ enqueued' = w.enqueued
    /\ counters' = [e \in EntityIds |->
                      IF \E i \in DOMAIN observers :
                            /\ observers[i].key = self
                            /\ observers[i].this = e
                            /\ observers[i].body = "inc"
                         /\ counters[e] < MaxCount
                      THEN counters[e] + 1 ELSE counters[e]]
    /\ UNCHANGED <<next_entity_id, handles, flushing_effects,
                   registry_vars, stack, dispatch, panicked, dispatched, fired,
                   dropped>>

\* ModelContext::notify
notify(self) ==
    /\ InClosure(self)
    /\ Len(enqueued) < MaxEffects
    /\ Len(pending_effects) < MaxEffects
    /\ SetWorld(push_effect(World, Notify(self)))
    /\ UNCHANGED <<next_entity_id, counters, handles, flushing_effects,
                   registry_vars, stack, dispatch, panicked, dispatched, fired,
                   dropped>>

\* ModelContext::emit
emit(self) ==
    /\ InClosure(self)
    /\ Len(enqueued) < MaxEffects
    /\ Len(pending_effects) < MaxEffects
    /\ SetWorld(push_effect(World, Emit(self)))
    /\ UNCHANGED <<next_entity_id, counters, handles, flushing_effects,
                   registry_vars, stack, dispatch, panicked, dispatched, fired,
                   dropped>>

\* mutant: the new entry goes before the existing ones
insert_front(set, key, callback) ==
    <<[callback EXCEPT !.id = next_subscriber_id, !.key = key]>> \o set

\* SubscriberSet::insert: the new entry goes after the existing ones
insert(set, key, callback) ==
    Append(set, [callback EXCEPT !.id = next_subscriber_id, !.key = key])

Callback(kind, this, body) ==
    [id |-> 0, key |-> 0, kind |-> kind, this |-> this, body |-> body]

\* mutant: the callback keeps the strong handle to the observed entity
observe_strong(self, target, body) ==
    /\ InClosure(self)
    /\ ref_counts[target] >= 1
    /\ next_subscriber_id <= MaxSubscriptions
    /\ observers' = insert(observers, target,
                           Callback("observe", handle(self), body))
    /\ next_subscriber_id' = next_subscriber_id + 1
    /\ ref_counts' = [ref_counts EXCEPT ![target] = @ + 1]
    /\ UNCHANGED <<next_entity_id, entities, counters, handles, pending_effects,
                   flushing_effects, event_handlers, release_handlers, stack,
                   dispatch, panicked, history_vars>>

\* mutant: an observer registered on the emitter whose Notify is being
\* dispatched joins the callbacks that dispatch still has to call
observe_live(self, target, body) ==
    /\ InClosure(self)
    /\ ref_counts[target] >= 1
    /\ next_subscriber_id <= MaxSubscriptions
    /\ observers' = insert(observers, downgrade(target),
                           Callback("observe", handle(self), body))
    /\ next_subscriber_id' = next_subscriber_id + 1
    /\ dispatch' = IF dispatch.effect = "Notify" /\ dispatch.emitter = target
                   THEN [dispatch EXCEPT !.callbacks =
                            insert(@, downgrade(target),
                                   Callback("observe", handle(self), body))]
                   ELSE dispatch
    /\ UNCHANGED <<store_vars, pending_effects, flushing_effects, event_handlers,
                   release_handlers, stack, panicked, history_vars>>

\* ModelContext::observe: keyed by the observed entity, the callback holds weak
\* handles to the observer (this) and to the observed entity
observe(self, target, body) ==
    /\ InClosure(self)
    /\ ref_counts[target] >= 1
    /\ next_subscriber_id <= MaxSubscriptions
    /\ observers' = insert(observers, downgrade(target),
                           Callback("observe", handle(self), body))
    /\ next_subscriber_id' = next_subscriber_id + 1
    /\ UNCHANGED <<store_vars, pending_effects, flushing_effects, event_handlers,
                   release_handlers, stack, dispatch, panicked, history_vars>>

\* mutant: the subscriber is registered ahead of the earlier ones
subscribe_front(self, target) ==
    /\ InClosure(self)
    /\ ref_counts[target] >= 1
    /\ next_subscriber_id <= MaxSubscriptions
    /\ event_handlers' = insert_front(event_handlers, downgrade(target),
                                      Callback("subscribe", handle(self), "free"))
    /\ next_subscriber_id' = next_subscriber_id + 1
    /\ UNCHANGED <<store_vars, pending_effects, flushing_effects, observers,
                   release_handlers, stack, dispatch, panicked, history_vars>>

\* ModelContext::subscribe
subscribe(self, target) ==
    /\ InClosure(self)
    /\ ref_counts[target] >= 1
    /\ next_subscriber_id <= MaxSubscriptions
    /\ event_handlers' = insert(event_handlers, downgrade(target),
                                Callback("subscribe", handle(self), "free"))
    /\ next_subscriber_id' = next_subscriber_id + 1
    /\ UNCHANGED <<store_vars, pending_effects, flushing_effects, observers,
                   release_handlers, stack, dispatch, panicked, history_vars>>

\* mutant: the release watcher is put among the observers of the entity
on_release_observed(self) ==
    /\ InClosure(self)
    /\ next_subscriber_id <= MaxSubscriptions
    /\ observers' = insert(observers, self, Callback("on_release", self, "free"))
    /\ next_subscriber_id' = next_subscriber_id + 1
    /\ UNCHANGED <<store_vars, pending_effects, flushing_effects, release_handlers,
                   event_handlers, stack, dispatch, panicked, history_vars>>

\* ModelContext::on_release: keyed by the context's own entity
on_release(self) ==
    /\ InClosure(self)
    /\ next_subscriber_id <= MaxSubscriptions
    /\ release_handlers' = insert(release_handlers, self,
                                  Callback("on_release", self, "free"))
    /\ next_subscriber_id' = next_subscriber_id + 1
    /\ UNCHANGED <<store_vars, pending_effects, flushing_effects, observers,
                   event_handlers, stack, dispatch, panicked, history_vars>>

\* ModelContext::observe_release: keyed by the observed entity, the callback
\* holds a weak handle to the observer
observe_release(self, target) ==
    /\ InClosure(self)
    /\ ref_counts[target] >= 1
    /\ next_subscriber_id <= MaxSubscriptions
    /\ release_handlers' = insert(release_handlers, target,
                                  Callback("observe_release", handle(self), "free"))
    /\ next_subscriber_id' = next_subscriber_id + 1
    /\ UNCHANGED <<store_vars, pending_effects, flushing_effects, observers,
                   event_handlers, stack, dispatch, panicked, history_vars>>

AllEntries == observers \o event_handlers \o release_handlers

\* the effect kind that calls a callback of kind `kind`
EffectOf(kind) ==
    CASE kind = "observe" -> "Notify"
      [] kind = "subscribe" -> "Emit"
      [] OTHER -> "Release"

\* history: the id, key and kind of the entry `id` of `set`, and whether an
\* effect that would call it is in the queue
Gone(set, id) ==
    {[id |-> id, key |-> set[i].key, kind |-> set[i].kind,
      queued |-> \E k \in DOMAIN pending_effects :
                    /\ pending_effects[k].type = EffectOf(set[i].kind)
                    /\ pending_effects[k].emitter = set[i].key] :
        i \in {j \in 1..Len(set) : set[j].id = id}}

\* mutant: the token is dropped and the entry stays in the registry
drop_subscription_keep(id) ==
    /\ UserCode
    /\ id \in Ids(AllEntries)
    /\ id \notin {d.id : d \in dropped}
    /\ dropped' = dropped \cup Gone(AllEntries, id)
    /\ UNCHANGED <<store_vars, pending_effects, flushing_effects, registry_vars,
                   stack, dispatch, panicked, enqueued, dispatched, fired>>

\* Drop for Subscription: the entry leaves the registry at once
drop_subscription(id) ==
    /\ UserCode
    /\ id \in Ids(observers) \cup Ids(event_handlers) \cup Ids(release_handlers)
    /\ observers' = RemoveId(observers, id)
    /\ event_handlers' = RemoveId(event_handlers, id)
    /\ release_handlers' = RemoveId(release_handlers, id)
    /\ dropped' = dropped \cup Gone(AllEntries, id)
    /\ UNCHANGED <<store_vars, pending_effects, flushing_effects,
                   next_subscriber_id, stack, dispatch, panicked, enqueued,
                   dispatched, fired>>

\* ---------------------------------------------------------------- flush loop
Registry(type) ==
    CASE type = "Notify" -> observers
      [] type = "Emit" -> event_handlers
      [] OTHER -> release_handlers

Bump(n) == IF n < MaxCount THEN n + 1 ELSE n

\* mutant: the flush loop dispatches the effect at the head of the queue and
\* leaves it in the queue
FlushNext_keep ==
    /\ ~panicked
    /\ flushing_effects
    /\ stack = <<>>
    /\ dispatch = NoDispatch
    /\ pending_effects # <<>>
    /\ LET effect == Head(pending_effects)
           callbacks == SelectKey(Registry(effect.type), effect.emitter)
       IN /\ dispatch' = [effect |-> effect.type, emitter |-> effect.emitter,
                          snapshot |-> callbacks, callbacks |-> callbacks]
          /\ dispatched' = IF recording THEN Append(dispatched, effect)
                            ELSE dispatched
    /\ pending_effects' = pending_effects
    /\ fired' = <<>>
    /\ UNCHANGED <<store_vars, flushing_effects, registry_vars, stack, panicked,
                   enqueued, dropped>>

\* flush_effects: pop the effect at the head of the queue and take a snapshot
\* of the callbacks registered for its emitter
FlushNext ==
    /\ ~panicked
    /\ flushing_effects
    /\ stack = <<>>
    /\ dispatch = NoDispatch
    /\ pending_effects # <<>>
    /\ LET effect == Head(pending_effects)
           callbacks == SelectKey(Registry(effect.type), effect.emitter)
       IN /\ dispatch' = [effect |-> effect.type, emitter |-> effect.emitter,
                          snapshot |-> callbacks, callbacks |-> callbacks]
          /\ dispatched' = IF recording THEN Append(dispatched, effect)
                            ELSE dispatched
    /\ pending_effects' = Tail(pending_effects)
    /\ fired' = <<>>
    /\ UNCHANGED <<store_vars, flushing_effects, registry_vars, stack, panicked,
                   enqueued, dropped>>

\* mutant: the callback forgets the handles it upgraded (they are never dropped)
callback_update_leak(this, temps, body) ==
    IF body = "inc"
    THEN /\ counters' = [counters EXCEPT ![this] = Bump(@)]
         /\ UNCHANGED <<entities, ref_counts, stack>>
    ELSE /\ entities' = [entities EXCEPT ![this] = "taken"]
         /\ ref_counts' = upgrade_all(World, temps).ref_counts
         /\ stack' = Append(stack, Frame(this, <<>>))
         /\ UNCHANGED counters

\* mutant: the callback updates the observed entity instead of the observer
callback_update_handle(this, temps, body) ==
    IF body = "inc"
    THEN /\ counters' = [counters EXCEPT ![temps[1]] = Bump(@)]
         /\ UNCHANGED <<entities, ref_counts, stack>>
    ELSE /\ entities' = [entities EXCEPT ![temps[1]] = "taken"]
         /\ ref_counts' = upgrade_all(World, temps).ref_counts
         /\ stack' = Append(stack, Frame(temps[1], temps))
         /\ UNCHANGED counters

\* mutant: the value the closure has changed is not put back into its slot
callback_update_taken(this, temps, body) ==
    IF body = "inc"
    THEN /\ counters' = [counters EXCEPT ![this] = Bump(@)]
         /\ entities' = [entities EXCEPT ![this] = "taken"]
         /\ UNCHANGED <<ref_counts, stack>>
    ELSE /\ entities' = [entities EXCEPT ![this] = "taken"]
         /\ ref_counts' = upgrade_all(World, temps).ref_counts
         /\ stack' = Append(stack, Frame(this, temps))
         /\ UNCHANGED counters

\* this.update(cx, ..) in a registry callback: the observer is updated while
\* the callback holds the strong handles `temps` it upgraded
callback_update(this, temps, body) ==
    IF body = "inc"
    THEN /\ counters' = [counters EXCEPT ![this] = Bump(@)]
         /\ UNCHANGED <<entities, ref_counts, stack>>
    ELSE /\ entities' = [entities EXCEPT ![this] = "taken"]
         /\ ref_counts' = upgrade_all(World, temps).ref_counts
         /\ stack' = Append(stack, Frame(this, temps))
         /\ UNCHANGED counters

\* mutant: the callback upgrades the observer only and uses the observed
\* entity without checking that it is live
observer_callback_unchecked(c) ==
    IF upgrade(entities, c.this)
    THEN /\ fired' = Append(fired, [id |-> c.id, ran |-> TRUE])
         /\ callback_update(c.this, <<c.key, c.this>>, c.body)
         /\ UNCHANGED <<registry_vars, dropped>>
    ELSE /\ fired' = Append(fired, [id |-> c.id, ran |-> FALSE])
         /\ observers' = RemoveId(observers, c.id)
         /\ event_handlers' = RemoveId(event_handlers, c.id)
         /\ UNCHANGED dropped
         /\ UNCHANGED <<release_handlers, next_subscriber_id>>
         /\ UNCHANGED <<entities, counters, ref_counts, stack>>

\* mutant: the callback that could not upgrade reports that it is still valid
observer_callback_valid(c) ==
    IF upgrade(entities, c.this) /\ upgrade(entities, c.key)
    THEN /\ fired' = Append(fired, [id |-> c.id, ran |-> TRUE])
         /\ callback_update(c.this, <<c.key, c.this>>, c.body)
         /\ UNCHANGED <<registry_vars, dropped>>
    ELSE /\ fired' = Append(fired, [id |-> c.id, ran |-> FALSE])
         /\ UNCHANGED <<registry_vars, dropped>>
         /\ UNCHANGED <<entities, counters, ref_counts, stack>>

\* the registry callback built by observe / subscribe: upgrade both weak
\* handles; if both are live update the observer with the user callback and
\* stay registered (true), else report invalid (false)
observer_callback(c) ==
    IF upgrade(entities, c.this) /\ upgrade(entities, c.key)
    THEN /\ fired' = Append(fired, [id |-> c.id, ran |-> TRUE])
         /\ callback_update(c.this, <<c.key, c.this>>, c.body)
         /\ UNCHANGED <<registry_vars, dropped>>
    ELSE /\ fired' = Append(fired, [id |-> c.id, ran |-> FALSE])
         /\ observers' = RemoveId(observers, c.id)
         /\ event_handlers' = RemoveId(event_handlers, c.id)
         /\ UNCHANGED dropped
         /\ UNCHANGED <<release_handlers, next_subscriber_id>>
         /\ UNCHANGED <<entities, counters, ref_counts, stack>>

\* the registry callback built by on_release: run the user callback on the
\* released value
on_release_callback(c) ==
    /\ fired' = Append(fired, [id |-> c.id, ran |-> TRUE])
    /\ UNCHANGED <<registry_vars, dropped>>
    /\ UNCHANGED <<entities, counters, ref_counts, stack>>

\* mutant: the callback updates the observer without upgrading its weak handle
observe_release_callback_unchecked(c) ==
    /\ UNCHANGED <<registry_vars, dropped>>
    /\ fired' = Append(fired, [id |-> c.id, ran |-> TRUE])
    /\ callback_update(c.this, <<c.this>>, c.body)

\* the registry callback built by observe_release: run the user callback on the
\* observer if the observer is still live, else do nothing
observe_release_callback(c) ==
    /\ UNCHANGED <<registry_vars, dropped>>
    /\ IF upgrade(entities, c.this)
       THEN /\ fired' = Append(fired, [id |-> c.id, ran |-> TRUE])
            /\ callback_update(c.this, <<c.this>>, c.body)
       ELSE /\ fired' = Append(fired, [id |-> c.id, ran |-> FALSE])
            /\ UNCHANGED <<entities, counters, ref_counts, stack>>

\* the flush loop calls the next callback of the snapshot, unless its
\* subscription was dropped in the meantime
InvokeCallback ==
    /\ ~panicked
    /\ flushing_effects
    /\ stack = <<>>
    /\ dispatch.callbacks # <<>>
    /\ LET c == Head(dispatch.callbacks) IN
        /\ dispatch' = [dispatch EXCEPT !.callbacks = Tail(@)]
        /\ IF c.id \notin Ids(Registry(dispatch.effect))
           THEN UNCHANGED <<entities, counters, ref_counts, stack, registry_vars,
                            fired, dropped>>
           ELSE CASE c.kind = "on_release" -> on_release_callback(c)
                  [] c.kind = "observe_release" -> observe_release_callback(c)
                  [] OTHER -> observer_callback(c)
    /\ UNCHANGED <<next_entity_id, handles, pending_effects, flushing_effects,
                   panicked, enqueued, dispatched>>

\* every callback of the snapshot was called; a Release then drops every
\* registry entry keyed by the released id
FinishDispatch ==
    /\ ~panicked
    /\ flushing_effects
    /\ stack = <<>>
    /\ dispatch # NoDispatch
    /\ dispatch.callbacks = <<>>
    /\ dispatch' = NoDispatch
    /\ fired' = <<>>
    /\ IF dispatch.effect = "Release"
       THEN /\ observers' = RemoveKey(observers, dispatch.emitter)
            /\ event_handlers' = RemoveKey(event_handlers, dispatch.emitter)
            /\ release_handlers' = RemoveKey(release_handlers, dispatch.emitter)
       ELSE UNCHANGED <<observers, event_handlers, release_handlers>>
    /\ UNCHANGED <<store_vars, pending_effects, flushing_effects,
                   next_subscriber_id, stack, panicked, enqueued, dispatched,
                   dropped>>

\* the queue is empty: Draining -> Idle
FlushEnd ==
    /\ ~panicked
    /\ flushing_effects
    /\ stack = <<>>
    /\ dispatch = NoDispatch
    /\ pending_effects = <<>>
    /\ flushing_effects' = FALSE
    /\ counters' = [e \in EntityIds |-> 0]
    /\ enqueued' = <<>>
    /\ dispatched' = <<>>
    /\ UNCHANGED <<next_entity_id, entities, ref_counts, handles, pending_effects,
                   registry_vars, stack, dispatch, panicked, fired, dropped>>

\* ---------------------------------------------------------------- bridge
\* AsyncAppContext(Weak<Mutex<AppContext>>): every operation upgrades the Weak,
\* locks the Mutex, calls the operation of AppContext and returns its result;
\* the guard `lock` is dropped before the Arc `app`

\* the operations of AsyncAppContext
Ops == {"refresh", "entity", "update_entity", "read_global", "update_global",
        "read_window", "update_window", "spawn"}

\* the operations that take a window handle
WindowOps == {"read_window", "update_window"}

\* the operations of AppContext that call the closure of the caller
ClosureOps == {"entity", "update_entity", "read_global", "update_global"}

\* a task that is in no operation and has called none
IdleTask ==
    [pc |-> "idle", op |-> "none", window |-> 0, result |-> "none",
     locked |-> FALSE, ran |-> 0]

\* a task that no spawn has started yet
DormantTask == [IdleTask EXCEPT !.pc = "dormant"]

\* the tasks that hold an Arc obtained by upgrade
Holding == {t \in Tasks : tasks[t].pc \in {"upgraded", "locked", "closure",
                                           "returning", "unlocked"}}

\* mutant: the operation goes on although the Weak did not upgrade
AsyncUpgrade_unchecked(t, op, w) ==
    /\ tasks[t].pc = "idle"
    /\ strong_count' = strong_count + 1
    /\ tasks' = [tasks EXCEPT ![t] = [pc |-> "upgraded", op |-> op, window |-> w,
                                      result |-> "none", locked |-> FALSE,
                                      ran |-> 0]]
    /\ UNCHANGED <<owner, mutex, windows>>

\* mutant: the operation goes on with the Weak, holding no Arc of its own
AsyncUpgrade_borrowed(t, op, w) ==
    /\ tasks[t].pc = "idle"
    /\ IF strong_count = 0
       THEN tasks' = [tasks EXCEPT ![t] =
                         [pc |-> "idle", op |-> op, window |-> w,
                          result |-> "app was released", locked |-> FALSE,
                          ran |-> 0]]
       ELSE tasks' = [tasks EXCEPT ![t] =
                         [pc |-> "upgraded", op |-> op, window |-> w,
                          result |-> "none", locked |-> FALSE, ran |-> 0]]
    /\ UNCHANGED <<owner, strong_count, mutex, windows>>

\* self.0.upgrade().ok_or_else(|| anyhow!("app was released"))?
AsyncUpgrade(t, op, w) ==
    /\ tasks[t].pc = "idle"
    /\ IF strong_count = 0
       THEN /\ tasks' = [tasks EXCEPT ![t] =
                            [pc |-> "idle", op |-> op, window |-> w,
                             result |-> "app was released", locked |-> FALSE,
                             ran |-> 0]]
            /\ UNCHANGED strong_count
       ELSE /\ strong_count' = strong_count + 1
            /\ tasks' = [tasks EXCEPT ![t] =
                            [pc |-> "upgraded", op |-> op, window |-> w,
                             result |-> "none", locked |-> FALSE, ran |-> 0]]
    /\ UNCHANGED <<owner, mutex, windows>>

\* the tasks whose closure is inside a bridge call of its own
Reentered == {t \in Tasks : nested[t] # "none"}

\* the call, outer or nested, of task t has its Arc and goes on to app.lock()
AtLock(t) == tasks[t].pc = "upgraded" \/ nested[t] = "upgraded"

\* the guard is handed to the call of task t that asked for it
Locked(t) ==
    IF nested[t] = "upgraded"
    THEN /\ nested' = [nested EXCEPT ![t] = "locked"]
         /\ UNCHANGED tasks
    ELSE /\ tasks' = [tasks EXCEPT ![t].pc = "locked", ![t].locked = TRUE]
         /\ UNCHANGED nested

\* mutant: the Mutex is taken although another task holds it
AsyncLock_unguarded(t) ==
    /\ AtLock(t)
    /\ mutex' = t
    /\ Locked(t)
    /\ UNCHANGED <<owner, strong_count, windows>>

\* mutant: the Mutex is re-entrant, the thread that holds it may lock it again
AsyncLock_reentrant(t) ==
    /\ AtLock(t)
    /\ mutex \in {0, t}
    /\ mutex' = t
    /\ Locked(t)
    /\ UNCHANGED <<owner, strong_count, windows>>

\* let lock = app.lock(): parking_lot::Mutex, not re-entrant: the call blocks
\* while the Mutex is held, by another task or by its own thread
AsyncLock(t) ==
    /\ AtLock(t)
    /\ mutex = 0
    /\ mutex' = t
    /\ Locked(t)
    /\ UNCHANGED <<owner, strong_count, windows>>

\* the closure of an operation calls an operation of a clone of the bridge:
\* the nested call upgrades the Weak (the outer call holds an Arc, so it
\* succeeds) and goes on to app.lock()
AsyncReenter(t) ==
    /\ tasks[t].pc = "closure"
    /\ callers[t] # "on_next_frame"
    /\ nested[t] = "none"
    /\ strong_count > 0
    /\ strong_count' = strong_count + 1
    /\ nested' = [nested EXCEPT ![t] = "upgraded"]
    /\ UNCHANGED <<owner, mutex, windows, tasks>>

\* AppContext::spawn: the future is handed to the executor, which runs it as
\* a task of its own (tasks beyond MaxTasks are not tracked)
Spawned ==
    IF \E u \in Tasks : tasks[u].pc = "dormant"
    THEN LET u == CHOOSE u \in Tasks :
                    /\ tasks[u].pc = "dormant"
                    /\ \A v \in Tasks : tasks[v].pc = "dormant" => u <= v
         IN [tasks EXCEPT ![u] = IdleTask]
    ELSE tasks

\* lock.op(..): the operation of AppContext is called under the lock
AsyncCall(t) ==
    /\ tasks[t].pc = "locked"
    /\ LET op == tasks[t].op
       IN CASE op \in ClosureOps ->
                 tasks' = [tasks EXCEPT ![t].pc = "closure", ![t].ran = @ + 1]
            [] op \in WindowOps ->
                 IF tasks[t].window \in windows
                 THEN tasks' = [tasks EXCEPT ![t].pc = "closure",
                                             ![t].ran = @ + 1]
                 ELSE tasks' = [tasks EXCEPT ![t].pc = "returning",
                                             ![t].result = "window not found"]
            [] op = "spawn" ->
                 tasks' = [Spawned EXCEPT ![t].pc = "returning",
                                          ![t].result = "Ok"]
            [] OTHER ->
                 tasks' = [tasks EXCEPT ![t].pc = "returning",
                                        ![t].result = "Ok"]
    /\ UNCHANGED <<owner, strong_count, mutex, windows>>

\* the closure passed to update_window removes its window
AsyncCloseWindow(t) ==
    /\ tasks[t].pc = "closure"
    /\ tasks[t].op = "update_window"
    /\ callers[t] # "on_next_frame"
    /\ nested[t] = "none"
    /\ tasks[t].window \in windows
    /\ windows' = windows \ {tasks[t].window}
    /\ next_frame_callbacks' =
            [next_frame_callbacks EXCEPT ![tasks[t].window] = <<>>]
    /\ UNCHANGED <<owner, strong_count, mutex, tasks>>

\* the closure of the caller returns and so does the operation of AppContext
AsyncClosureReturn(t) ==
    /\ tasks[t].pc = "closure"
    /\ callers[t] # "on_next_frame"
    /\ nested[t] = "none"
    /\ tasks' = [tasks EXCEPT ![t].pc = "returning", ![t].result = "Ok"]
    /\ UNCHANGED <<owner, strong_count, mutex, windows>>

\* the operation returns: the guard `lock`, declared last, is dropped first
AsyncUnlock(t) ==
    /\ tasks[t].pc = "returning"
    /\ mutex' = 0
    /\ tasks' = [tasks EXCEPT ![t].pc = "unlocked"]
    /\ UNCHANGED <<owner, strong_count, windows>>

\* then the Arc `app` is dropped and the caller has the result
AsyncReturn(t) ==
    /\ tasks[t].pc = "unlocked"
    /\ strong_count' = strong_count - 1
    /\ tasks' = [tasks EXCEPT ![t].pc = "idle"]
    /\ UNCHANGED <<owner, mutex, windows>>

\* the application drops its owning reference to the runtime
DropApp ==
    /\ owner
    /\ owner' = FALSE
    /\ strong_count' = strong_count - 1
    /\ UNCHANGED <<mutex, windows, tasks>>

\* AsyncWindowContext { app, window }: the methods of the window-scoped bridge
WindowMethods == {"update", "entity", "update_entity", "read_global",
                  "update_global", "refresh"}

\* mutant: refresh goes through update_window like the other methods
Route_window(method) ==
    CASE method = "read_global" -> "read_window"
      [] OTHER -> "update_window"

\* the operation of AsyncAppContext each method of AsyncWindowContext calls
Route(method) ==
    CASE method = "refresh" -> "refresh"
      [] method = "read_global" -> "read_window"
      [] OTHER -> "update_window"

\* mutant: the methods of the Context trait go to the operation of the same
\* name of AsyncAppContext and leave the window aside
AsyncWindowContext_app(t, method, w) ==
    /\ AsyncUpgrade(t, IF method = "update" THEN "update_window" ELSE method,
                    IF method = "update" THEN w ELSE 0)
    /\ callers' = [callers EXCEPT ![t] = method]

\* a method of AsyncWindowContext called with `window` = w: it calls
\* self.app.update_window(self.window, ..), read_window or refresh
AsyncWindowContext(t, method, w) ==
    /\ AsyncUpgrade(t, Route(method),
                    IF Route(method) \in WindowOps THEN w ELSE 0)
    /\ callers' = [callers EXCEPT ![t] = method]

\* AsyncWindowContext::on_next_frame with `window` = w:
\* self.app.update_window(self.window, |cx| cx.on_next_frame(f)).ok()
on_next_frame(t, w) ==
    /\ Len(next_frame_callbacks[w]) < MaxFrameCallbacks
    /\ AsyncWindowContext(t, "on_next_frame", w)

\* the closure |cx| cx.on_next_frame(f): WindowContext::on_next_frame puts f
\* among the callbacks of its window for the next frame
WindowContext_on_next_frame(t) ==
    /\ tasks[t].pc = "closure"
    /\ callers[t] = "on_next_frame"
    /\ next_frame_callbacks' =
            [next_frame_callbacks EXCEPT ![tasks[t].window] = Append(@, t)]
    /\ tasks' = [tasks EXCEPT ![t].pc = "returning", ![t].result = "Ok"]
    /\ UNCHANGED <<owner, strong_count, mutex, windows>>

\* mutant: the result of update_window is unwrapped
Returned_unwrap(t) ==
    IF callers[t] = "on_next_frame"
    THEN IF tasks[t].result \in {"Ok", "none"} THEN "()" ELSE "panic"
    ELSE tasks[t].result

\* what the caller of the latest method of task t has got back: on_next_frame
\* ends in .ok(); and returns (), the other methods return the Result
Returned(t) ==
    IF callers[t] = "on_next_frame" THEN "()" ELSE tasks[t].result

\* the next frame of window w: the platform takes the callbacks registered for
\* it and runs them with the runtime locked
NextFrame(w) ==
    /\ strong_count > 0
    /\ mutex = 0
    /\ w \in windows
    /\ next_frame_callbacks[w] # <<>>
    /\ next_frame_callbacks' = [next_frame_callbacks EXCEPT ![w] = <<>>]
    /\ UNCHANGED <<owner, strong_count, mutex, windows, tasks>>

\* ---------------------------------------------------------------- globals
\* the global table of AppContext and the read_global / update_global of
\* ModelContext; a global is a value keyed by its type

\* AppContext::pop_global: the value leaves the table
pop_global(table, g) == [table EXCEPT ![g] = [present |-> FALSE, value |-> 0]]

\* AppContext::push_global: the value is put into the table
push_global(table, g, value) ==
    [table EXCEPT ![g] = [present |-> TRUE, value |-> value]]

\* the innermost read_global / update_global in progress
GlobalTop == global_stack[Len(global_stack)]

\* a context that can mutate: the app-level one or that of an update closure
\* (the closure of read_global gets a shared reference to the context)
GlobalMutable ==
    IF global_stack = <<>> THEN TRUE ELSE GlobalTop.op = "update"

\* ModelContext::update_global, entry: pop_global, then f(global.as_mut(), self)
update_global(g) ==
    /\ ~global_panicked
    /\ GlobalMutable
    /\ ~globals[g].present \/ Len(global_stack) < MaxGlobalDepth
    /\ IF globals[g].present
       THEN /\ globals' = pop_global(globals, g)
            /\ global_stack' = Append(global_stack,
                    [op |-> "update", type |-> g, value |-> globals[g].value])
            /\ UNCHANGED global_panicked
       ELSE /\ global_panicked' = TRUE
            /\ UNCHANGED <<globals, global_stack>>

\* the closure of update_global changes the value it was given
global_mutate ==
    /\ ~global_panicked
    /\ global_stack # <<>>
    /\ GlobalTop.op = "update"
    /\ GlobalTop.value < MaxGlobalValue
    /\ global_stack' = [global_stack EXCEPT ![Len(global_stack)].value = @ + 1]
    /\ UNCHANGED <<globals, global_panicked>>

\* mutant: the global is taken out of the table for the read
read_global_pop(g) ==
    /\ ~global_panicked
    /\ ~globals[g].present \/ Len(global_stack) < MaxGlobalDepth
    /\ IF globals[g].present
       THEN /\ globals' = pop_global(globals, g)
            /\ global_stack' = Append(global_stack,
                    [op |-> "read", type |-> g, value |-> globals[g].value])
            /\ UNCHANGED global_panicked
       ELSE /\ global_panicked' = TRUE
            /\ UNCHANGED <<globals, global_stack>>

\* ModelContext::read_global, entry: read(self.app.global(), self); the value
\* is borrowed where it is
read_global(g) ==
    /\ ~global_panicked
    /\ ~globals[g].present \/ Len(global_stack) < MaxGlobalDepth
    /\ IF globals[g].present
       THEN /\ global_stack' = Append(global_stack,
                    [op |-> "read", type |-> g, value |-> globals[g].value])
            /\ UNCHANGED <<globals, global_panicked>>
       ELSE /\ global_panicked' = TRUE
            /\ UNCHANGED <<globals, global_stack>>

\* mutant: update_global returns without push_global
global_return_lost ==
    /\ ~global_panicked
    /\ global_stack # <<>>
    /\ global_stack' = SubSeq(global_stack, 1, Len(global_stack) - 1)
    /\ UNCHANGED <<globals, global_panicked>>

\* the closure returns; update_global then does push_global(global)
global_return ==
    /\ ~global_panicked
    /\ global_stack # <<>>
    /\ globals' = IF GlobalTop.op = "update"
                  THEN push_global(globals, GlobalTop.type, GlobalTop.value)
                  ELSE globals
    /\ global_stack' = SubSeq(global_stack, 1, Len(global_stack) - 1)
    /\ UNCHANGED global_panicked

\* ---------------------------------------------------------------- Text
\* the Text element of gpui3: initialize, layout (which registers the closure
\* that measures the text) and paint, on the element state
\* Arc<Mutex<Option<TextElementState>>>

\* Option::None and Some(TextElementState { lines, line_height })
None == [some |-> FALSE, lines |-> <<>>, line_height |-> 0]
Some(lines, line_height) ==
    [some |-> TRUE, lines |-> lines, line_height |-> line_height]

\* no closure was given to request_measured_layout yet
NoCallback == [registered |-> FALSE, line_height |-> 0]

Size_default == [width |-> 0, height |-> 0]

\* the lines text_system.layout_text can give back: up to MaxLines lines, each
\* of a width in 1..MaxWidth
Lines ==
    UNION {[1..n -> [width : 1..MaxWidth]] : n \in 0..MaxLines}

\* the results of text_system.layout_text(..).log_err(): None after an error,
\* else the lines
Layouts ==
    {[ok |-> FALSE, lines |-> <<>>]} \cup {[ok |-> TRUE, lines |-> l] : l \in Lines}

\* lines.iter().map(|line| line.layout.width).max()
RECURSIVE max_width(_)
max_width(lines) ==
    IF lines = <<>> THEN 0
    ELSE LET rest == max_width(Tail(lines))
         IN IF Head(lines).width > rest THEN Head(lines).width ELSE rest

\* Text::initialize: element_state.unwrap_or_default(); the frame hands in the
\* state of the previous frame (kept) or none (a new, empty one)
initialize(kept) ==
    /\ text_panic = "none"
    /\ stage \in {"new", "painted"}
    /\ stage' = "initialized"
    /\ element_state' = IF kept /\ stage # "new" THEN element_state ELSE None
    /\ UNCHANGED <<measure_callback, measurements, last_layout, size, painted,
                   text_panic>>

\* Text::layout: request_measured_layout with a closure that holds a clone of
\* the element state and the line height of the text style
layout(line_height) ==
    /\ text_panic = "none"
    /\ stage = "initialized"
    /\ stage' = "layout"
    /\ measure_callback' = [registered |-> TRUE, line_height |-> line_height]
    /\ measurements' = 0
    /\ UNCHANGED <<element_state, last_layout, size, painted, text_panic>>

\* mutant: a failed text layout empties the element state
measure_cleared(result) ==
    /\ text_panic = "none"
    /\ stage = "layout"
    /\ measure_callback.registered
    /\ measurements < MaxMeasurements
    /\ measurements' = measurements + 1
    /\ last_layout' = IF result.ok THEN "Ok" ELSE "Err"
    /\ IF ~result.ok
       THEN /\ size' = Size_default
            /\ element_state' = None
            /\ UNCHANGED text_panic
       ELSE IF result.lines = <<>>
       THEN /\ text_panic' = "called Option::unwrap() on a None value"
            /\ UNCHANGED <<size, element_state>>
       ELSE /\ size' = [width |-> max_width(result.lines),
                        height |-> measure_callback.line_height
                                        * Len(result.lines)]
            /\ element_state' = Some(result.lines, measure_callback.line_height)
            /\ UNCHANGED text_panic
    /\ UNCHANGED <<stage, measure_callback, painted>>

\* the closure given to request_measured_layout, called by the layout engine
\* with the result of layout_text: an error gives Size::default() and nothing
\* else; lines give their size and replace the element state (the max of no
\* line is None, which is unwrapped)
measure(result) ==
    /\ text_panic = "none"
    /\ stage = "layout"
    /\ measure_callback.registered
    /\ measurements < MaxMeasurements
    /\ measurements' = measurements + 1
    /\ last_layout' = IF result.ok THEN "Ok" ELSE "Err"
    /\ IF ~result.ok
       THEN /\ size' = Size_default
            /\ UNCHANGED <<element_state, text_panic>>
       ELSE IF result.lines = <<>>
       THEN /\ text_panic' = "called Option::unwrap() on a None value"
            /\ UNCHANGED <<size, element_state>>
       ELSE /\ size' = [width |-> max_width(result.lines),
                        height |-> measure_callback.line_height
                                        * Len(result.lines)]
            /\ element_state' = Some(result.lines, measure_callback.line_height)
            /\ UNCHANGED text_panic
    /\ UNCHANGED <<stage, measure_callback, painted>>

\* Text::paint: expect the element state, then paint every line, each one
\* line height below the one before (lines are taken as unwrapped)
paint ==
    /\ text_panic = "none"
    /\ stage = "layout"
    /\ stage' = "painted"
    /\ IF element_state.some
       THEN /\ painted' = [i \in DOMAIN element_state.lines |->
                                (i - 1) * element_state.line_height]
            /\ UNCHANGED text_panic
       ELSE /\ text_panic' = "measurement has not been performed"
            /\ UNCHANGED painted
    /\ UNCHANGED <<element_state, measure_callback, measurements, last_layout,
                   size>>

\* ---------------------------------------------------------------- specification
\* the state after construction: no entity, an empty queue, an empty registry,
\* one owner of the runtime, every window open, every global set
Constructed ==
    /\ next_entity_id = 1
    /\ entities = [e \in EntityIds |-> "none"]
    /\ counters = [e \in EntityIds |-> 0]
    /\ ref_counts = [e \in EntityIds |-> 0]
    /\ handles = [e \in EntityIds |-> 0]
    /\ last_upgrade = NoUpgrade
    /\ pending_effects = <<>>
    /\ flushing_effects = FALSE
    /\ observers = <<>>
    /\ event_handlers = <<>>
    /\ release_handlers = <<>>
    /\ next_subscriber_id = 1
    /\ stack = <<>>
    /\ dispatch = NoDispatch
    /\ panicked = FALSE
    /\ enqueued = <<>>
    /\ dispatched = <<>>
    /\ fired = <<>>
    /\ dropped = {}
    /\ owner = TRUE
    /\ strong_count = 1
    /\ mutex = 0
    /\ windows = WindowIds
    /\ tasks = [t \in Tasks |-> IF t = 1 THEN IdleTask ELSE DormantTask]
    /\ callers = [t \in Tasks |-> "none"]
    /\ next_frame_callbacks = [w \in WindowIds |-> <<>>]
    /\ nested = [t \in Tasks |-> "none"]
    /\ globals = [g \in GlobalTypes |-> [present |-> TRUE, value |-> 0]]
    /\ global_stack = <<>>
    /\ global_panicked = FALSE
    /\ stage = "new"
    /\ element_state = None
    /\ measure_callback = NoCallback
    /\ measurements = 0
    /\ last_layout = "none"
    /\ size = Size_default
    /\ painted = <<>>
    /\ text_panic = "none"

Init == Constructed /\ recording = TRUE

\* operations of user code other than notifications and events
UserStep ==
    \/ entity
    \/ \E e \in EntityIds : clone_handle(e)
    \/ \E e \in EntityIds : drop_user_handle(e)
    \/ \E e \in EntityIds : BeginUpdate(e)
    \/ \E self, e \in EntityIds : NestedUpdate(self, e)
    \/ Return
    \/ \E self \in EntityIds : on_release(self)
    \/ \E self, e \in EntityIds : observe_release(self, e)
    \/ \E id \in SubscriptionIds : drop_subscription(id)

\* change notifications: observe / notify
NotifyStep ==
    \/ \E self \in EntityIds : notify(self)
    \/ \E self, e \in EntityIds, b \in Behaviours : observe(self, e, b)

\* typed events: subscribe / emit
EventStep ==
    \/ \E self \in EntityIds : emit(self)
    \/ \E self, e \in EntityIds : subscribe(self, e)

FlushStep ==
    \/ FlushNext
    \/ InvokeCallback
    \/ FinishDispatch
    \/ FlushEnd

Upgrade == \E e \in EntityIds : upgrade_weak(e)

\* the runtime with entities that notify and observe each other
Next ==
    \/ (Upgrade /\ UNCHANGED <<bridge_vars, global_vars, recording, text_vars>>)
    \/ (UserStep /\ last_upgrade' = NoUpgrade /\ UNCHANGED <<bridge_vars, global_vars, recording, text_vars>>)
    \/ (NotifyStep /\ last_upgrade' = NoUpgrade /\ UNCHANGED <<bridge_vars, global_vars, recording, text_vars>>)
    \/ (FlushStep /\ last_upgrade' = NoUpgrade /\ UNCHANGED <<bridge_vars, global_vars, recording, text_vars>>)

Spec == Init /\ [][Next]_vars

\* the runtime with entities that emit events and subscribe to each other
NextEvents ==
    \/ (Upgrade /\ UNCHANGED <<bridge_vars, global_vars, recording, text_vars>>)
    \/ (UserStep /\ last_upgrade' = NoUpgrade /\ UNCHANGED <<bridge_vars, global_vars, recording, text_vars>>)
    \/ (EventStep /\ last_upgrade' = NoUpgrade /\ UNCHANGED <<bridge_vars, global_vars, recording, text_vars>>)
    \/ (FlushStep /\ last_upgrade' = NoUpgrade /\ UNCHANGED <<bridge_vars, global_vars, recording, text_vars>>)

SpecEvents == Init /\ [][NextEvents]_vars

\* tasks that call AsyncAppContext operations on clones of one bridge
NextBridge ==
    \/ (DropApp /\ UNCHANGED <<app_vars, callers, global_vars, text_vars,
                               next_frame_callbacks, nested>>)
    \/ \E t \in Tasks, op \in Ops, w \in WindowIds :
        /\ AsyncUpgrade(t, op, IF op \in WindowOps THEN w ELSE 0)
        /\ callers' = [callers EXCEPT ![t] = "AsyncAppContext"]
        /\ UNCHANGED <<app_vars, global_vars, text_vars, next_frame_callbacks, nested>>
    \/ \E t \in Tasks, method \in WindowMethods, w \in WindowIds :
        AsyncWindowContext(t, method, w)
            /\ UNCHANGED <<app_vars, global_vars, text_vars, next_frame_callbacks, nested>>
    \/ \E t \in Tasks, w \in WindowIds :
        on_next_frame(t, w)
            /\ UNCHANGED <<app_vars, global_vars, text_vars, next_frame_callbacks, nested>>
    \/ \E t \in Tasks :
        AsyncLock(t) /\ UNCHANGED <<app_vars, callers, global_vars, text_vars,
                                    next_frame_callbacks>>
    \/ \E t \in Tasks :
        AsyncReenter(t) /\ UNCHANGED <<app_vars, callers, global_vars, text_vars,
                                       next_frame_callbacks>>
    \/ \E t \in Tasks :
        AsyncCall(t) /\ UNCHANGED <<app_vars, callers, global_vars, text_vars,
                                    next_frame_callbacks, nested>>
    \/ \E t \in Tasks :
        AsyncCloseWindow(t) /\ UNCHANGED <<app_vars, callers, global_vars, text_vars, nested>>
    \/ \E t \in Tasks :
        WindowContext_on_next_frame(t)
            /\ UNCHANGED <<app_vars, callers, global_vars, text_vars, nested>>
    \/ \E t \in Tasks :
        AsyncClosureReturn(t) /\ UNCHANGED <<app_vars, callers, global_vars, text_vars,
                                             next_frame_callbacks, nested>>
    \/ \E t \in Tasks :
        AsyncUnlock(t) /\ UNCHANGED <<app_vars, callers, global_vars, text_vars,
                                      next_frame_callbacks, nested>>
    \/ \E t \in Tasks :
        AsyncReturn(t) /\ UNCHANGED <<app_vars, callers, global_vars, text_vars,
                                      next_frame_callbacks, nested>>
    \/ \E w \in WindowIds :
        NextFrame(w) /\ UNCHANGED <<app_vars, callers, global_vars, text_vars, nested>>

SpecBridge == Init /\ [][NextBridge]_vars

\* contexts that read and update globals, nested in each other's closures
NextGlobals ==
    \/ \E g \in GlobalTypes :
        update_global(g) /\ UNCHANGED <<app_vars, bridge_vars, text_vars>>
    \/ \E g \in GlobalTypes :
        read_global(g) /\ UNCHANGED <<app_vars, bridge_vars, text_vars>>
    \/ (global_mutate /\ UNCHANGED <<app_vars, bridge_vars, text_vars>>)
    \/ (global_return /\ UNCHANGED <<app_vars, bridge_vars, text_vars>>)

SpecGlobals == Init /\ [][NextGlobals]_vars

\* the frames of one Text element
NextText ==
    \/ \E kept \in BOOLEAN :
        initialize(kept) /\ UNCHANGED <<app_vars, bridge_vars, global_vars>>
    \/ \E line_height \in 1..MaxLineHeight :
        layout(line_height) /\ UNCHANGED <<app_vars, bridge_vars, global_vars>>
    \/ \E result \in Layouts :
        measure(result) /\ UNCHANGED <<app_vars, bridge_vars, global_vars>>
    \/ (paint /\ UNCHANGED <<app_vars, bridge_vars, global_vars>>)

SpecText == Init /\ [][NextText]_vars

\* the flush loop runs on the thread that made the outermost mutation, from
\* the end of that mutation until the queue is empty
FlushLoop ==
    FlushStep /\ last_upgrade' = NoUpgrade
              /\ UNCHANGED <<bridge_vars, global_vars, recording, text_vars>>

\* the closure of an update or of a registry callback comes to its end
ClosureEnd ==
    Return /\ last_upgrade' = NoUpgrade
           /\ UNCHANGED <<bridge_vars, global_vars, recording, text_vars>>

\* entities that observe, subscribe, notify and emit, in episodes of any length
\* (the history of an episode is not recorded)
NextFlush ==
    \/ (entity /\ last_upgrade' = NoUpgrade
               /\ UNCHANGED <<bridge_vars, global_vars, recording, text_vars>>)
    \/ \E e \in EntityIds :
        BeginUpdate(e) /\ last_upgrade' = NoUpgrade
                       /\ UNCHANGED <<bridge_vars, global_vars, recording, text_vars>>
    \/ (NotifyStep /\ last_upgrade' = NoUpgrade
                   /\ UNCHANGED <<bridge_vars, global_vars, recording, text_vars>>)
    \/ (EventStep /\ last_upgrade' = NoUpgrade
                  /\ UNCHANGED <<bridge_vars, global_vars, recording, text_vars>>)
    \/ ClosureEnd
    \/ FlushLoop

InitFlush == Constructed /\ recording = FALSE

\* every closure returns and the flush loop runs until it finds the queue empty
SpecFlush ==
    /\ InitFlush
    /\ [][NextFlush]_vars
    /\ WF_vars(ClosureEnd)
    /\ WF_vars(FlushLoop)

\* ---------------------------------------------------------------- properties
RECURSIVE Count(_, _)
Count(seq, x) ==
    IF seq = <<>> THEN 0
    ELSE (IF Head(seq) = x THEN 1 ELSE 0) + Count(Tail(seq), x)

RECURSIVE TempHandles(_, _)
TempHandles(frames, e) ==
    IF frames = <<>> THEN 0
    ELSE Count(Head(frames).temps, e) + TempHandles(Tail(frames), e)

\* the strong handles to `e` that exist: those user code holds and those the
\* registry callbacks in progress hold
StrongHandles(e) == handles[e] + TempHandles(stack, e)

Allocated(e) == e < next_entity_id
FullyReleased(e) == Allocated(e) /\ StrongHandles(e) = 0

C1_SlotIffHandle ==
    \A e \in EntityIds : (entities[e] # "none") <=> (StrongHandles(e) >= 1)

C1_UpgradeStep ==
    last_upgrade'.id # 0 =>
        LET e == last_upgrade'.id IN
        /\ (~last_upgrade'.some) <=> FullyReleased(e)
        /\ last_upgrade'.some =>
            /\ ref_counts'[e] = ref_counts[e] + 1
            /\ handles'[e] = handles[e] + 1
        /\ (~last_upgrade'.some) => UNCHANGED <<ref_counts, handles, entities>>

\* C1: an entity's slot is in the store iff at least one strong handle to its
\* id exists, and upgrading a weak handle returns None exactly when the entity
\* has been fully released; otherwise it returns a strong handle and the strong
\* count grows by one
C1_SlotAndUpgrade == [](C1_SlotIffHandle) /\ [][C1_UpgradeStep]_vars

\* an upgrade has just returned None for a released entity while another
\* entity is live
C1_Witness ==
    /\ last_upgrade.id # 0
    /\ ~last_upgrade.some
    /\ entities[last_upgrade.id] = "none"
    /\ \E e \in EntityIds : entities[e] # "none" /\ StrongHandles(e) >= 1

Effects(seq) == [i \in DOMAIN seq |-> seq[i].effect]

C2_Fifo == Effects(enqueued) = dispatched \o pending_effects

\* the step on which the outermost mutation returns (Draining -> Idle)
C2_ReturnStep ==
    (flushing_effects /\ ~flushing_effects') =>
        /\ pending_effects = <<>>
        /\ pending_effects' = <<>>
        /\ dispatched = Effects(enqueued)

\* C2: the flush is a fixed point: when the outermost mutation returns the
\* queue is empty and every effect enqueued during the episode, also those
\* enqueued by callbacks during the flush, was dispatched exactly once in FIFO
\* order
C2_FlushFixedPoint == [](C2_Fifo) /\ [][C2_ReturnStep]_vars

\* the flush has dispatched everything, including a Notify that a callback
\* enqueued while the queue was Draining
C2_Witness ==
    /\ flushing_effects
    /\ stack = <<>>
    /\ dispatch = NoDispatch
    /\ pending_effects = <<>>
    /\ Len(dispatched) >= 2
    /\ \E i \in DOMAIN enqueued :
        enqueued[i].draining /\ enqueued[i].effect.type = "Notify"

RECURSIVE FramesOf(_, _)
FramesOf(frames, e) ==
    IF frames = <<>> THEN 0
    ELSE (IF Head(frames).entity = e THEN 1 ELSE 0) + FramesOf(Tail(frames), e)

\* the value of an entity is in its slot or in the one update that took it
C4_StoreIntact ==
    \A e \in EntityIds :
        /\ FramesOf(stack, e) <= 1
        /\ (entities[e] = "taken") <=> (FramesOf(stack, e) = 1)

\* the violation is raised inside a closure, it changes nothing else, and it
\* is final
C4_PanicStep ==
    /\ (panicked' /\ ~panicked) =>
        /\ stack # <<>>
        /\ UNCHANGED <<store_vars, registry_vars, stack, pending_effects,
                       flushing_effects, dispatch>>
    /\ panicked => panicked'

\* C4: a re-entrant update_entity of an entity from inside its own update
\* (directly or through nested updates) is rejected as a fatal violation at the
\* nested call: the nested closure never runs and the store never holds the
\* entity lost, duplicated or aliased
C4_ReentrantUpdateRejected == [](C4_StoreIntact) /\ [][C4_PanicStep]_vars

\* the violation was raised under two nested updates of different entities
C4_Witness ==
    /\ panicked
    /\ Len(stack) = 2
    /\ stack[1].entity # stack[2].entity
    /\ entities[stack[1].entity] = "taken"
    /\ entities[stack[2].entity] = "taken"

FiredIds == [i \in DOMAIN fired |-> fired[i].id]
DroppedIds == {d.id : d \in dropped}

\* every callback of the Release being dispatched has been called
ReleaseDone ==
    /\ flushing_effects
    /\ stack = <<>>
    /\ dispatch.effect = "Release"
    /\ dispatch.callbacks = <<>>

\* each watcher registered for the released id was called exactly once, unless
\* its Subscription was dropped; nothing else was called
C5_WatchersFired ==
    /\ \A i \in DOMAIN fired :
        /\ Count(FiredIds, fired[i].id) = 1
        /\ fired[i].id \in Ids(dispatch.snapshot)
    /\ ReleaseDone =>
        \A i \in DOMAIN dispatch.snapshot :
            \/ dispatch.snapshot[i].id \in DroppedIds
            \/ Count(FiredIds, dispatch.snapshot[i].id) = 1

\* once the Release of an id has been dispatched no registry entry is keyed by it
C5_EntriesRemoved ==
    \A e \in EntityIds :
        ( /\ Allocated(e)
          /\ entities[e] = "none"
          /\ Count(pending_effects, Release(e)) = 0
          /\ ~(dispatch.effect = "Release" /\ dispatch.emitter = e) )
        => SelectKey(AllEntries, e) = <<>>

\* a user callback registered by observe / subscribe runs only for a live emitter
C5_NoLateFire ==
    ( /\ Len(fired') > Len(fired)
      /\ fired'[Len(fired')].ran
      /\ dispatch.effect \in {"Notify", "Emit"} )
    => entities[dispatch.emitter] # "none"

\* C5: releasing an entity calls every release watcher registered for its id
\* exactly once and then removes every registry entry keyed by the id; callbacks
\* observing or subscribed to the id never run afterwards
C5_ReleaseWatchers ==
    [](C5_WatchersFired /\ C5_EntriesRemoved) /\ [][C5_NoLateFire]_vars

\* a Release with an on_release and an observe_release watcher: both were called
C5_Witness ==
    /\ ReleaseDone
    /\ Len(dispatch.snapshot) = 2
    /\ dispatch.snapshot[1].kind # dispatch.snapshot[2].kind
    /\ Len(fired) = 2
    /\ fired[1].ran /\ fired[2].ran

C7_Deregistered == DroppedIds \cap Ids(AllEntries) = {}

\* the flush loop never calls a callback whose Subscription was dropped
C7_CallStep ==
    Len(fired') > Len(fired) => fired'[Len(fired')].id \notin DroppedIds

\* C7: dropping the Subscription deregisters the callback: it is never called
\* by any later dispatch, also not for an effect that was in the queue when the
\* token was dropped
C7_DroppedNeverCalled == [](C7_Deregistered) /\ [][C7_CallStep]_vars

\* an effect that was queued when the token was dropped has been dispatched
\* and the dropped callback was not called
C7_Witness ==
    /\ flushing_effects
    /\ stack = <<>>
    /\ dispatch.callbacks = <<>>
    /\ \E d \in dropped :
        /\ d.queued
        /\ dispatch.effect = EffectOf(d.kind)
        /\ dispatch.emitter = d.key
        /\ d.id \notin Ids(dispatch.snapshot)
        /\ \A i \in DOMAIN fired : fired[i].id # d.id

\* the flush has dispatched every effect
FlushDone ==
    /\ flushing_effects
    /\ stack = <<>>
    /\ dispatch = NoDispatch
    /\ pending_effects = <<>>

Min(a, b) == IF a < b THEN a ELSE b

\* every callback registered is still registered and runs no closure of its own
OnlyCounting ==
    /\ Ids(AllEntries) = 1..(next_subscriber_id - 1)
    /\ event_handlers = <<>>
    /\ \A i \in DOMAIN observers : observers[i].body = "inc"
    /\ \A i \in DOMAIN release_handlers : release_handlers[i].kind = "on_release"

\* B observes A with one callback that increments B's counter
Observes(b, a) ==
    /\ a # b
    /\ entities[a] # "none"
    /\ entities[b] # "none"
    /\ \E i \in DOMAIN observers :
        /\ observers[i].key = a
        /\ observers[i].this = b
        /\ \A j \in DOMAIN observers : observers[j].this = b => j = i

C8_Counted ==
    FlushDone /\ OnlyCounting =>
        \A a, b \in EntityIds :
            Observes(b, a) =>
                counters[b] = Min(MaxCount, Count(dispatched, Notify(a)))

C8_Deferred == ~flushing_effects => counters = [e \in EntityIds |-> 0]

\* C8: notifications are batched and not coalesced: when B observes A with a
\* callback that increments B's counter, an episode in which A notifies k times
\* leaves B's counter increased by k, and nothing is counted before the flush
C8_NotifyCounted == C8_Counted /\ C8_Deferred

\* A notified twice in one episode and B's counter went up by two
C8_Witness ==
    /\ FlushDone
    /\ OnlyCounting
    /\ \E a, b \in EntityIds :
        /\ Observes(b, a)
        /\ Count(dispatched, Notify(a)) = 2
        /\ counters[b] = 2

\* while the queue is Draining, closures run only inside a callback of the
\* effect being dispatched: no update has started a flush of its own
C9_OneFlush == (flushing_effects /\ stack # <<>>) => dispatch # NoDispatch

C9_Step ==
    \* effects are enqueued at the tail, behind those already queued
    /\ Len(pending_effects') > Len(pending_effects) =>
        SubSeq(pending_effects', 1, Len(pending_effects)) = pending_effects
    \* an effect is popped from the head, by the one loop, between callbacks
    /\ Len(dispatched') > Len(dispatched) =>
        /\ stack = <<>>
        /\ dispatch = NoDispatch
        /\ pending_effects # <<>>
        /\ dispatched' = Append(dispatched, Head(pending_effects))
        /\ pending_effects' = Tail(pending_effects)
    \* nothing is dispatched while an update is in progress
    /\ stack # <<>> => UNCHANGED <<dispatch, dispatched>>
    \* the flush starts only when the outermost update has returned
    /\ (~flushing_effects /\ flushing_effects') => stack' = <<>>

\* C9: a mutation made while the outermost one is in progress or the queue is
\* Draining starts no flush of its own: its effects go to the tail of the one
\* queue and are dispatched after those already queued, by the single loop
C9_NestedAppends == [](C9_OneFlush) /\ [][C9_Step]_vars

\* a nested update of another entity has returned inside the outermost update:
\* its Notify is queued behind the outer one and nothing has been dispatched
C9_Witness ==
    /\ Len(stack) = 1
    /\ ~flushing_effects
    /\ Len(pending_effects) = 2
    /\ pending_effects[1] = Notify(stack[1].entity)
    /\ pending_effects[2].type = "Notify"
    /\ pending_effects[2].emitter # stack[1].entity
    /\ dispatched = <<>>

\* the strong count is the number of owning references there are
C3_Owning ==
    strong_count = (IF owner THEN 1 ELSE 0) + Cardinality(Holding)
                       + Cardinality(Reentered)

\* an operation that returned "app was released" took no lock and ran no closure
C3_Released ==
    \A t \in Tasks :
        tasks[t].result = "app was released" =>
            /\ tasks[t].pc = "idle"
            /\ ~tasks[t].locked
            /\ tasks[t].ran = 0
            /\ mutex # t

C3_Step ==
    /\ \A t \in Tasks :
        (tasks[t].pc = "idle" /\ tasks'[t] # tasks[t]) =>
            IF strong_count = 0
            THEN /\ tasks'[t].pc = "idle"
                 /\ tasks'[t].result = "app was released"
                 /\ UNCHANGED <<strong_count, mutex, windows>>
            ELSE /\ tasks'[t].pc = "upgraded"
                 /\ tasks'[t].result # "app was released"
    \* no result other than that of the failed upgrade is that error
    /\ \A t \in Tasks :
        (tasks[t].pc = "unlocked" /\ tasks'[t].pc = "idle") =>
            tasks'[t].result \in {"Ok", "window not found"}
    \* a runtime that is gone stays gone
    /\ strong_count = 0 => strong_count' = 0

\* C3: once the last owning reference to the runtime is gone every operation of
\* AsyncAppContext returns "app was released" without taking the lock or
\* calling the closure; while an owning reference exists none returns that error
C3_AppReleased == [](C3_Owning /\ C3_Released) /\ [][C3_Step]_vars

\* the runtime is gone and an update_entity has returned "app was released"
C3_Witness ==
    /\ strong_count = 0
    /\ \E t \in Tasks :
        /\ tasks[t].op = "update_entity"
        /\ tasks[t].result = "app was released"

\* the closures of the callers that are running
Running == {t \in Tasks : tasks[t].pc = "closure"}

C10_OneWriter ==
    /\ Cardinality(Running) <= 1
    /\ \A t \in Tasks :
        (mutex = t) <=> (tasks[t].pc \in {"locked", "closure", "returning"})

C10_Step ==
    \A t \in Tasks :
        \* the closure is called with the lock held
        /\ tasks'[t].ran > tasks[t].ran => (mutex = t /\ mutex' = t)
        \* the operation that returns, Ok or not, holds no lock
        /\ (tasks[t].pc = "unlocked" /\ tasks'[t].pc = "idle") =>
            (mutex' # t /\ (tasks'[t].locked <=> tasks'[t].result # "none"))

\* C10: at most one closure of a caller runs at any instant: an operation takes
\* the one lock of the runtime before it calls the closure and has released it
\* when it returns, with Ok or with an error
C10_SingleWriter == [](C10_OneWriter) /\ [][C10_Step]_vars

\* one task runs its closure while another, past its upgrade, waits for the lock
C10_Witness ==
    \E t, u \in Tasks :
        /\ t # u
        /\ tasks[t].pc = "closure"
        /\ tasks[u].pc = "upgraded"
        /\ mutex = t

\* the methods of AsyncWindowContext that act on the window
WindowScoped == WindowMethods \ {"refresh"}

\* the calls that name a window
OnWindow(t) == tasks[t].op \in WindowOps \/ callers[t] \in WindowScoped

\* a call that names a window has run the closure once if it returned Ok and
\* not at all if it returned an error
C11_Result ==
    \A t \in Tasks :
        (OnWindow(t) /\ tasks[t].pc = "idle") =>
            /\ tasks[t].result \in {"Ok", "window not found", "app was released"}
            /\ tasks[t].result = "Ok" => tasks[t].ran = 1
            /\ tasks[t].result # "Ok" => tasks[t].ran = 0

C11_Step ==
    \A t \in Tasks :
        (OnWindow(t) /\ tasks[t].pc = "locked" /\ tasks'[t] # tasks[t]) =>
            IF tasks[t].window \in windows
            THEN /\ tasks'[t].pc = "closure"
                 /\ tasks'[t].ran = 1
            ELSE /\ tasks'[t].pc = "returning"
                 /\ tasks'[t].result = "window not found"
                 /\ tasks'[t].ran = 0

\* C11: read_window, update_window and the methods of AsyncWindowContext that
\* act on the window return an error and do not call the closure when the
\* window no longer exists; when it exists (and the runtime is alive) the
\* closure is called exactly once
C11_WindowGone == [](C11_Result) /\ [][C11_Step]_vars

\* update_entity of an AsyncWindowContext whose window was removed has returned
\* the error
C11_Witness ==
    \E t \in Tasks :
        /\ callers[t] = "update_entity"
        /\ tasks[t].pc = "idle"
        /\ tasks[t].locked
        /\ tasks[t].result = "window not found"
        /\ tasks[t].ran = 0

\* a slot is absent only while an update of its entity is in progress
C12_Present ==
    \A e \in EntityIds : entities[e] = "taken" => InUpdate(e)

C12_Step ==
    \A e \in EntityIds :
        \* the update begins: the value is taken out of a slot that holds it
        /\ (Len(stack') = Len(stack) + 1 /\ stack'[Len(stack')].entity = e) =>
            /\ entities[e] = "some"
            /\ entities'[e] = "taken"
            /\ counters'[e] = counters[e]
        \* the closure returns: the value is put back under the same id, as the
        \* closure left it; the entity is released at once only when the
        \* handle the callback upgraded for the update was its last
        /\ (Len(stack') = Len(stack) - 1 /\ Top.entity = e) =>
            /\ entities[e] = "taken"
            /\ entities'[e] = IF ref_counts'[e] = 0 THEN "none" ELSE "some"
            /\ ref_counts'[e] = 0 => \E i \in DOMAIN Top.temps : Top.temps[i] = e
            /\ counters'[e] = counters[e]
        \* in between the slot stays absent, and no other step empties a slot
        /\ (stack' = stack) => ((entities'[e] = "taken") <=> (entities[e] = "taken"))
        \* an update made in one step leaves the changed value in its slot
        /\ counters'[e] > counters[e] => (entities[e] = "some" /\ entities'[e] = "some")
        \* a slot that is absent is never taken again: the access is fatal
        /\ (entities[e] = "taken" /\ Len(stack') > Len(stack)) =>
            stack'[Len(stack')].entity # e

UpdatesOf(g) ==
    {i \in DOMAIN global_stack :
        global_stack[i].op = "update" /\ global_stack[i].type = g}

\* a global is out of the table exactly while one update_global of it runs
C13_Absent ==
    \A g \in GlobalTypes :
        /\ Cardinality(UpdatesOf(g)) <= 1
        /\ ~globals[g].present <=> UpdatesOf(g) # {}

C13_Step ==
    \* entry: the global leaves the table and the closure gets its value
    /\ (Len(global_stack') > Len(global_stack)
        /\ global_stack'[Len(global_stack')].op = "update") =>
        LET f == global_stack'[Len(global_stack')]
        IN /\ globals[f.type].present
           /\ f.value = globals[f.type].value
           /\ globals' = pop_global(globals, f.type)
    \* return: the value of the closure is back in the table, the rest is as
    \* it was
    /\ (Len(global_stack') < Len(global_stack) /\ GlobalTop.op = "update") =>
        /\ globals'[GlobalTop.type] = [present |-> TRUE, value |-> GlobalTop.value]
        /\ \A g \in GlobalTypes \ {GlobalTop.type} : globals'[g] = globals[g]
    \* in between the table changes only by the updates of other globals
    /\ Len(global_stack') = Len(global_stack) => globals' = globals

\* C13: update_global takes G out of the global table before it calls the
\* closure, the closure runs with G absent, and the value the closure leaves
\* is put back before update_global returns; every other global is as the
\* closure left it
C13_UpdateGlobal == [](C13_Absent) /\ [][C13_Step]_vars

\* an update_global has returned: its global is back with the changed value,
\* and so is another global its closure updated
C13_Witness ==
    /\ global_stack = <<>>
    /\ ~global_panicked
    /\ \A g \in GlobalTypes : globals[g].present
    /\ \E g, h \in GlobalTypes :
        g # h /\ globals[g].value = 1 /\ globals[h].value = 2

\* the read_global calls in progress
Reads == {i \in DOMAIN global_stack : global_stack[i].op = "read"}

\* C14 as claimed: during the closure of read_global the global is out of the
\* table
C14_RemovedWhileRead ==
    \A i \in Reads : ~globals[global_stack[i].type].present

\* while a read_global of G runs, G is in the table with the value the
\* closure was given, and only reads run inside the closure
C14_InPlace ==
    \A i \in Reads :
        /\ globals[global_stack[i].type] =
                [present |-> TRUE, value |-> global_stack[i].value]
        /\ \A j \in DOMAIN global_stack : j > i => j \in Reads

C14_Step ==
    \* no step made inside the closure of a read changes the table
    /\ (global_stack # <<>> /\ GlobalTop.op = "read") => globals' = globals
    \* entry and return of read_global leave the table as it is
    /\ (Len(global_stack') > Len(global_stack)
        /\ global_stack'[Len(global_stack')].op = "read") => globals' = globals

\* C14 (amended): read_global of ModelContext does not take G out of the
\* table: the closure reads G where it is, through a shared context that
\* cannot mutate globals, and G is present and unchanged during the closure
\* and after read_global returns
C14_ReadGlobal == [](C14_InPlace) /\ [][C14_Step]_vars

\* a read_global runs inside the closure of an update_global of another global
C14_Witness ==
    /\ Len(global_stack) = 2
    /\ global_stack[1].op = "update"
    /\ global_stack[2].op = "read"
    /\ globals[global_stack[2].type].present
    /\ ~globals[global_stack[1].type].present

\* the entry of the snapshot that has the subscription id `id`
Entry(id) ==
    dispatch.snapshot[CHOOSE i \in DOMAIN dispatch.snapshot :
                            dispatch.snapshot[i].id = id]

C15_CallStep ==
    (Len(fired') > Len(fired) /\ dispatch.effect \in {"Notify", "Emit"}) =>
        LET f == fired'[Len(fired')]
            c == Entry(f.id)
        IN \* only an entry that is in the registry is called
           /\ f.id \in Ids(Registry(dispatch.effect))
           /\ IF entities[c.this] # "none" /\ entities[c.key] # "none"
              THEN \* the user callback runs on the observer, the entry stays
                   /\ f.ran
                   /\ f.id \in Ids(AllEntries')
                   /\ IF c.body = "inc"
                      THEN /\ counters'[c.this] = Bump(counters[c.this])
                           /\ stack' = stack
                      ELSE /\ stack' = Append(stack, Frame(c.this, <<c.key, c.this>>))
                           /\ counters' = counters
              ELSE \* no user callback runs, the entry is removed
                   /\ ~f.ran
                   /\ f.id \notin Ids(AllEntries')
                   /\ UNCHANGED <<entities, counters, ref_counts, stack>>

\* an entry that is out of the registry never comes back: ids only enter the
\* registry when they are issued, and they are issued once
C15_RemovedStep ==
    /\ \A id \in Ids(AllEntries') :
        id \in Ids(AllEntries) \/ id = next_subscriber_id
    /\ next_subscriber_id' >= next_subscriber_id

C15_Issued == \A id \in Ids(AllEntries) : id < next_subscriber_id

\* C15: at the dispatch of a Notify or Emit a callback of observe/subscribe
\* whose observer or emitter can no longer be upgraded runs no user callback,
\* reports invalid and is removed from the registry for good; a callback whose
\* two sides are live runs the user callback on the observer and stays
C15_InvalidRemoved ==
    [](C15_Issued) /\ [][C15_CallStep /\ C15_RemovedStep]_vars

\* one Notify found a callback whose observer was released, removed it, and
\* ran another callback that is still registered
C15_Witness ==
    /\ dispatch.effect = "Notify"
    /\ \E i, j \in DOMAIN fired :
        /\ ~fired[i].ran
        /\ fired[i].id \notin Ids(AllEntries)
        /\ fired[i].id \notin DroppedIds
        /\ entities[Entry(fired[i].id).this] = "none"
        /\ fired[j].ran
        /\ fired[j].id \in Ids(observers)

\* the kinds of callbacks that watch a release
ReleaseKinds == {"on_release", "observe_release"}

C16_DropStep ==
    \A e \in EntityIds :
        \* the drop of the last strong handle removes the slot and appends one
        \* Release behind what is queued; no callback is called, no entry goes
        /\ (ref_counts[e] >= 1 /\ ref_counts'[e] = 0) =>
            /\ entities'[e] = "none"
            /\ Count(pending_effects', Release(e)) =
                    Count(pending_effects, Release(e)) + 1
            /\ SubSeq(pending_effects', 1, Len(pending_effects)) = pending_effects
            /\ UNCHANGED <<fired, registry_vars, dispatched>>
        \* nothing else enqueues a Release
        /\ Count(pending_effects', Release(e)) > Count(pending_effects, Release(e))
            => (ref_counts[e] >= 1 /\ ref_counts'[e] = 0)

C16_WatchStep ==
    \* a release watcher is called only by the dispatch of the Release of the
    \* entity it watches, which the flush has popped from the head of the queue
    /\ Len(fired') > Len(fired) =>
        LET c == Entry(fired'[Len(fired')].id)
        IN c.kind \in ReleaseKinds =>
            /\ flushing_effects
            /\ dispatch.effect = "Release"
            /\ dispatch.emitter = c.key
            /\ entities[c.key] = "none"
            /\ dispatched # <<>>
            /\ dispatched[Len(dispatched)] = Release(c.key)
    /\ (Len(dispatched') > Len(dispatched)
        /\ dispatched'[Len(dispatched')].type = "Release") =>
            /\ pending_effects # <<>>
            /\ Head(pending_effects) = dispatched'[Len(dispatched')]
            /\ pending_effects' = Tail(pending_effects)

\* C16: the drop of the last strong handle removes the slot and appends one
\* Release for the id to the queue in the same step; the release watchers are
\* not called then but when the flush dispatches that effect, after the effects
\* queued before it
C16_ReleaseDeferred == [][C16_DropStep /\ C16_WatchStep]_vars

\* inside an update the last handle of a watched entity was dropped: its slot
\* is gone, its Release is queued behind a Notify and no watcher has run
C16_Witness ==
    /\ stack # <<>>
    /\ ~flushing_effects
    /\ Len(pending_effects) = 2
    /\ pending_effects[1].type = "Notify"
    /\ pending_effects[2].type = "Release"
    /\ entities[pending_effects[2].emitter] = "none"
    /\ \E i \in DOMAIN release_handlers :
        release_handlers[i].key = pending_effects[2].emitter
    /\ fired = <<>>

\* the dispatch of a Notify or Emit has called its last callback
DispatchDone ==
    /\ dispatch.effect \in {"Notify", "Emit"}
    /\ dispatch.callbacks = <<>>
    /\ stack = <<>>

\* the subscriptions called in the current dispatch
CalledIds == {fired[i].id : i \in DOMAIN fired}

\* the number of calls of the subscription `id` in the current dispatch
Calls(id) == Cardinality({i \in DOMAIN fired : fired[i].id = id})

\* the callbacks called are those of the snapshot, none twice, whatever the
\* callbacks register meanwhile
C17_Snapshot ==
    dispatch.effect \in {"Notify", "Emit"} =>
        /\ CalledIds \subseteq Ids(dispatch.snapshot)
        /\ \A id \in CalledIds : Calls(id) = 1
        /\ \A i \in DOMAIN dispatch.snapshot :
            (dispatch.snapshot[i].kind = "observe") = (dispatch.effect = "Notify")

\* none that was registered when the dispatch began is skipped, unless its
\* Subscription was dropped
C17_NoneSkipped ==
    DispatchDone =>
        \A i \in DOMAIN dispatch.snapshot :
            dispatch.snapshot[i].id \notin DroppedIds =>
                Calls(dispatch.snapshot[i].id) = 1

C18_RegistryStep ==
    AllEntries' # AllEntries => UNCHANGED <<ref_counts, entities>>

\* an entity without a strong handle outside the registry is released, whatever
\* callbacks observe it or belong to it
C18_Released ==
    \A e \in EntityIds :
        (Allocated(e) /\ handles[e] = 0 /\ TempHandles(stack, e) = 0) =>
            (entities[e] = "none" /\ ref_counts[e] = 0)

\* the handles a callback upgrades live for one call of it: they are held by
\* the update the flush loop started for the callback and by nothing else
C18_Temporary ==
    \A i \in DOMAIN stack :
        stack[i].temps # <<>> =>
            /\ i = 1
            /\ flushing_effects
            /\ dispatch # NoDispatch
            /\ fired # <<>>
            /\ LET c == Entry(fired[Len(fired)].id)
               IN /\ stack[i].entity = c.this
                  /\ \A k \in DOMAIN stack[i].temps :
                        stack[i].temps[k] \in {c.this, c.key}

\* C18: the callbacks of observe, subscribe and observe_release hold weak
\* handles only: an entity is released as soon as the strong handles held
\* outside the registry are dropped, whatever subscriptions involve it, and a
\* strong handle made from a callback's weak handle lasts for one call of the
\* callback
C18_WeakSubscriptions ==
    [](C18_Released /\ C18_Temporary) /\ [][C18_RegistryStep]_vars

\* two entities observe each other and both have been released, with the two
\* callbacks still in the registry
C18_Witness ==
    \E a, b \in EntityIds :
        /\ a # b
        /\ entities[a] = "none" /\ entities[b] = "none"
        /\ Allocated(a) /\ Allocated(b)
        /\ \E i, j \in DOMAIN observers :
            /\ observers[i].key = a /\ observers[i].this = b
            /\ observers[j].key = b /\ observers[j].this = a

\* ---------------------------------------------------------------- C22
\* an effect is appended to the queue while the queue is Draining
AppendsWhileDraining ==
    /\ flushing_effects
    /\ Len(pending_effects') > Len(pending_effects)

\* C22 as stated: every flush episode terminates, whatever the callbacks
\* dispatched in it append to the queue
C22_AlwaysTerminates == flushing_effects ~> ~flushing_effects

\* C22: a flush episode to which effects are appended only finitely many
\* times terminates: the queue goes back from Draining to Idle
C22_Terminates ==
    (<>[][~AppendsWhileDraining]_vars) => (flushing_effects ~> ~flushing_effects)

\* a callback called by the flush loop has appended an effect of its own
\* entity, the one whose effect is being dispatched, to the queue
C22_Witness ==
    /\ flushing_effects
    /\ dispatch.effect \in {"Notify", "Emit"}
    /\ stack # <<>>
    /\ pending_effects # <<>>
    /\ pending_effects[Len(pending_effects)].emitter = Top.entity
    /\ Top.entity = dispatch.emitter
\* ---------------------------------------------------------------- C23
\* the Notify and Emit effects of a queue
Signals(queue) ==
    {i \in DOMAIN queue : queue[i].type \in {"Notify", "Emit"}}

\* a step in which a Notify or an Emit effect enters the queue
Signalled == Cardinality(Signals(pending_effects')) >
             Cardinality(Signals(pending_effects))

\* what such a step does: one effect of the entity of the innermost context
\* is appended at the tail, no callback is called (no frame is pushed, nothing
\* is recorded as called, no counter moves) and the entity store, the globals
\* and the registry stay as they are
C23_Step ==
    Signalled =>
        /\ stack # <<>>
        /\ \E type \in {"Notify", "Emit"} :
            pending_effects' =
                Append(pending_effects, [type |-> type, emitter |-> Top.entity])
        /\ UNCHANGED <<store_vars, registry_vars, global_vars>>
        /\ UNCHANGED <<stack, dispatch, fired, flushing_effects, panicked>>

\* C23: notify and emit only append one effect of the context's own entity at
\* the tail of the queue: no callback runs synchronously and the entity store,
\* the globals and the subscription registry are unchanged
C23_NotifyFrame == [][C23_Step]_vars

\* notify was called in an update nested in the update of another entity,
\* while an observer that counts is registered for the notifying entity
C23_Witness ==
    /\ Len(stack) = 2
    /\ stack[1].entity # Top.entity
    /\ pending_effects # <<>>
    /\ pending_effects[Len(pending_effects)] = Notify(Top.entity)
    /\ \E i \in DOMAIN observers :
        /\ observers[i].key = Top.entity
        /\ observers[i].body = "inc"
        /\ counters[observers[i].this] = 0
\* ---------------------------------------------------------------- C24
\* the entry a registration has put at the end of the release watchers
Registered(kind, key, this) ==
    /\ Len(release_handlers') = Len(release_handlers) + 1
    /\ LET e == release_handlers'[Len(release_handlers')] IN
        /\ e.kind = kind
        /\ e.key = key
        /\ e.this = this

\* on_release registers under the id of the context's entity, observe_release
\* under the id of the entity behind the handle
C24_KeyStep ==
    /\ \A self \in EntityIds :
        on_release(self) => Registered("on_release", self, self)
    /\ \A self, target \in EntityIds :
        observe_release(self, target) =>
            Registered("observe_release", target, self)

\* a call of an observe_release callback by the dispatch of a Release: the
\* callback is one registered under the released id; the user callback runs on
\* the observer (an update of the observer begins) iff the observer is live,
\* else nothing happens, and nothing panics
C24_CallStep ==
    (Len(fired') > Len(fired) /\ dispatch.effect = "Release") =>
        LET c == Head(dispatch.callbacks)
            f == fired'[Len(fired')]
        IN /\ c.key = dispatch.emitter
           /\ f.id = c.id
           /\ ~panicked'
           /\ c.kind = "observe_release" =>
              IF entities[c.this] = "none"
              THEN /\ ~f.ran
                   /\ UNCHANGED <<store_vars, registry_vars, stack,
                                  pending_effects>>
              ELSE /\ f.ran
                   /\ Len(stack') = 1
                   /\ stack'[1].entity = c.this
                   /\ entities'[c.this] = "taken"

\* C24: release watchers are keyed by the entity being released; when it is
\* released an observe_release callback runs the user callback on the observer
\* only if the observer is still live and is skipped without a panic otherwise
C24_ReleaseWatcherKeys == [][C24_KeyStep /\ C24_CallStep]_vars

\* the dispatch of the Release of an entity has skipped the observe_release
\* callback of an observer that was released before
C24_Witness ==
    /\ dispatch.effect = "Release"
    /\ ~panicked
    /\ \E i \in DOMAIN fired :
        /\ ~fired[i].ran
        /\ Entry(fired[i].id).kind = "observe_release"
        /\ Entry(fired[i].id).key = dispatch.emitter
        /\ Entry(fired[i].id).this # dispatch.emitter
        /\ entities[Entry(fired[i].id).this] = "none"
\* ---------------------------------------------------------------- C25
\* the calls of on_next_frame
NextFrameCalls == {t \in Tasks : callers[t] = "on_next_frame"}

\* a call of on_next_frame that has returned gave its caller () whatever
\* update_window returned, and one whose update_window failed has not run
\* the closure that registers the callback
C25_Silent ==
    \A t \in NextFrameCalls :
        tasks[t].pc = "idle" =>
            /\ Returned(t) = "()"
            /\ tasks[t].result \in {"Ok", "window not found", "app was released"}
            /\ tasks[t].result # "Ok" => tasks[t].ran = 0

C25_Step ==
    \* a callback is registered only by a call of on_next_frame, on the window
    \* of the call, which exists, with the lock held and the runtime alive
    /\ \A w \in WindowIds :
        Len(next_frame_callbacks'[w]) > Len(next_frame_callbacks[w]) =>
            \E t \in NextFrameCalls :
                /\ next_frame_callbacks'[w] = Append(next_frame_callbacks[w], t)
                /\ tasks[t].window = w
                /\ w \in windows
                /\ mutex = t
                /\ strong_count > 0
                /\ tasks[t].pc = "closure"
                /\ tasks'[t].result = "Ok"
    \* a call that goes on to return Ok has registered its callback, a call
    \* that fails registers nothing
    /\ \A t \in Tasks :
        (callers'[t] = "on_next_frame" /\ tasks'[t] # tasks[t]) =>
            /\ (tasks[t].pc = "closure") =>
                    next_frame_callbacks'[tasks[t].window] =
                        Append(next_frame_callbacks[tasks[t].window], t)
            /\ (tasks'[t].result \in {"window not found", "app was released"}) =>
                    UNCHANGED next_frame_callbacks
    \* the callbacks are not run by the call: none leaves the list in a step
    \* of a call of on_next_frame
    /\ \A t \in Tasks :
        (callers'[t] = "on_next_frame" /\ tasks'[t] # tasks[t]) =>
            \A w \in WindowIds :
                Len(next_frame_callbacks'[w]) >= Len(next_frame_callbacks[w])

Alive == strong_count > 0

\* while an operation is past its upgrade the runtime state exists, whoever
\* else has dropped an owning reference; the lock is held only by such an
\* operation
C26_Kept ==
    \A t \in Tasks :
        /\ t \in Holding => Alive
        /\ mutex = t => t \in Holding

C26_Step ==
    \A t \in Tasks :
        \* the closure runs and returns with the runtime alive, and the
        \* operation returns Ok, with or without an owner left
        /\ (tasks[t].pc = "closure" /\ tasks'[t].pc = "returning") =>
            (Alive /\ Alive' /\ tasks'[t].result = "Ok")
        \* the owning reference is given up after the lock guard
        /\ (t \in Holding /\ t \notin Holding') =>
            (tasks[t].pc = "unlocked" /\ mutex # t /\ mutex' # t
             /\ strong_count' = strong_count - 1)
        \* an operation fails with "app was released" only at its start, when
        \* no owning reference is left
        /\ (tasks'[t] # tasks[t] /\ tasks'[t].result = "app was released") =>
            (tasks[t].pc = "idle" /\ ~Alive /\ ~owner)

\* C26: an operation that has upgraded the Weak holds an owning reference for
\* the whole operation: the runtime state is not destroyed while it holds the
\* lock or runs the closure even if every other owning reference is dropped,
\* it returns Ok, the guard is released before its owning reference, and only
\* operations that start with no owning reference left fail
C26_ArcHeld == [](C26_Kept) /\ [][C26_Step]_vars

\* the application has dropped its reference while update_entity runs its
\* closure: the reference of the operation is the only one left
C26_Witness ==
    \E t \in Tasks :
        /\ ~owner
        /\ strong_count = 1
        /\ tasks[t].op = "update_entity"
        /\ tasks[t].pc = "closure"
        /\ mutex = t
\* ---------------------------------------------------------------- C27
\* a nested call is waiting in app.lock() for the Mutex that the operation
\* whose closure made it holds
C27_Blocked ==
    \A t \in Reentered :
        /\ nested[t] = "upgraded"
        /\ tasks[t].pc = "closure"
        /\ mutex = t

\* from then on the task makes no step: the nested call returns nothing, the
\* closure does not return, the Mutex is never released, and no other task
\* ever gets it
C27_Step ==
    /\ \A t \in Reentered :
        /\ nested'[t] = nested[t]
        /\ tasks'[t] = tasks[t]
        /\ mutex' = t
    /\ Reentered # {} =>
        \A u \in Tasks :
            /\ tasks'[u].pc = "locked" => tasks[u].pc = "locked"
            /\ tasks'[u].pc = "closure" => tasks[u].pc = "closure"

\* C27: the lock of the runtime is not re-entrant: a bridge operation called
\* from inside the closure of another one, on the thread that holds the lock,
\* blocks forever, it returns neither a result nor an error
C27_Deadlock == [](C27_Blocked) /\ [][C27_Step]_vars

\* the closure of update_entity has called the bridge again and is blocked,
\* and another task, past its upgrade, waits for the same lock
C27_Witness ==
    \E t, u \in Tasks :
        /\ t # u
        /\ tasks[t].op = "update_entity"
        /\ nested[t] = "upgraded"
        /\ mutex = t
        /\ tasks[u].pc = "upgraded"
\* ---------------------------------------------------------------- C28
\* refresh calls the refresh of AsyncAppContext and carries no window; the
\* other methods call read_window (read_global) or update_window with the
\* window of the context; a refresh never ends with the error of a window
C28_Routes ==
    \A t \in Tasks :
        /\ callers[t] = "refresh" =>
            /\ tasks[t].op = "refresh"
            /\ tasks[t].window = 0
            /\ tasks[t].result \in {"none", "Ok", "app was released"}
        /\ callers[t] \in WindowScoped =>
            /\ tasks[t].op =
                    (IF callers[t] = "read_global" THEN "read_window"
                     ELSE "update_window")
            /\ tasks[t].window \in WindowIds

\* a refresh that finds the runtime alive goes on, and the call it makes under
\* the lock returns Ok, whatever windows there are; the other methods, at
\* that point, look their window up
C28_Step ==
    \A t \in Tasks :
        /\ (callers'[t] = "refresh" /\ tasks[t].pc = "idle"
                /\ tasks'[t] # tasks[t] /\ strong_count > 0) =>
            tasks'[t].pc = "upgraded"
        /\ (callers[t] = "refresh" /\ tasks[t].pc = "locked"
                /\ tasks'[t] # tasks[t]) =>
            (tasks'[t].pc = "returning" /\ tasks'[t].result = "Ok")
        /\ (callers[t] \in WindowScoped /\ tasks[t].pc = "locked"
                /\ tasks'[t] # tasks[t] /\ tasks[t].window \notin windows) =>
            tasks'[t].result = "window not found"

\* C28: AsyncWindowContext::refresh delegates to the refresh of the app and
\* never consults its window: it succeeds whenever the runtime is alive, also
\* after its window was removed, while update, entity, update_entity,
\* read_global and update_global go through read_window / update_window with
\* the window of the context
C28_Refresh == [](C28_Routes) /\ [][C28_Step]_vars

\* after the last window was removed, a refresh of an AsyncWindowContext has
\* returned Ok from the runtime, and an update on the same kind of context
\* has failed for its window
C28_Witness ==
    \E t, u \in Tasks :
        /\ windows = {}
        /\ callers[t] = "refresh"
        /\ tasks[t].pc = "returning"
        /\ tasks[t].result = "Ok"
        /\ callers[u] = "update"
        /\ tasks[u].pc = "idle"
        /\ tasks[u].result = "window not found"
\* ---------------------------------------------------------------- C29
\* a step in which the closure that measures the text has run
Measured == measurements' = measurements + 1

C29_Step ==
    \* lines and line height are stored only by a measurement whose text
    \* layout succeeded: the lines it got and the line height of the layout
    /\ (element_state'.some /\ element_state' # element_state) =>
        /\ Measured
        /\ last_layout' = "Ok"
        /\ element_state'.lines # <<>>
        /\ element_state'.line_height = measure_callback.line_height
        /\ size' = [width |-> max_width(element_state'.lines),
                    height |-> element_state'.line_height
                                    * Len(element_state'.lines)]
    \* a measurement whose text layout failed returns the zero size and
    \* leaves the element state as it was
    /\ (Measured /\ last_layout' = "Err") =>
        /\ size' = Size_default
        /\ element_state' = element_state
        /\ text_panic' = "none"
    \* paint panics iff the element state is empty, else it paints the lines
    \* that are stored
    /\ (stage = "layout" /\ stage' = "painted") =>
        IF element_state.some
        THEN /\ text_panic' = "none"
             /\ Len(painted') = Len(element_state.lines)
        ELSE /\ text_panic' = "measurement has not been performed"
             /\ painted' = painted

\* the panic of paint is raised on an empty element state only
C29_Panic ==
    text_panic = "measurement has not been performed" =>
        (~element_state.some /\ stage = "painted")

\* C29: the closure registered by layout stores lines and line height in the
\* element state only when text layout succeeds; when it fails it returns the
\* zero size and leaves the state unchanged, so earlier lines stay; paint on
\* an element state that was never populated panics with "measurement has
\* not been performed"
C29_TextMeasurement == [](C29_Panic) /\ [][C29_Step]_vars

\* the text layout of this frame failed, the element state still holds the
\* lines of the frame before, and paint has painted those
C29_Witness ==
    /\ stage = "painted"
    /\ last_layout = "Err"
    /\ measurements = 1
    /\ size = Size_default
    /\ element_state.some
    /\ Len(painted) = Len(element_state.lines)
    /\ text_panic = "none"
====
